---- MODULE Spec2Model ----
(***************************************************************************)
(* Model of tolmachov/mcp-telegram: the message pagination core           *)
(* (messages.Provider.Fetch and FetchAll), the batch planner               *)
(* (summarize.splitIntoBatchesByTokens), the rolling summarizer            *)
(* (Summarizer.Summarize) and its wait for the Provider                   *)
(* (summarizeWithProgress), the progress estimator of the backup tool      *)
(* (backupProgress), the Provider's rate limiter and entity text           *)
(* extraction (extractSubstring).                                          *)
(*                                                                         *)
(* Times are Unix seconds.  The zero time.Time{} is modelled by ZeroTime,  *)
(* which lies before every message timestamp, as in Go.  A pointer result  *)
(* is a sequence of length 0 (nil) or 1 (the pointed-to record).           *)
(***************************************************************************)
EXTENDS Integers, Sequences, FiniteSets, TLC

\* ---------------------------------------------------------------- bounds
MaxPages == 2        \* page requests modelled per FetchAll call

MaxSplitMsgs == 3    \* messages given to the batch planner
MaxBudget == 24      \* maxTokens ranges over -1..MaxBudget

MaxExtLen == 3       \* code points in a string given to extractSubstring

MaxSumTicks == 1     \* ticks delivered while Summarize waits for the Provider

MaxTicks == 1        \* ticks the heartbeat's ticker delivers in one run
MaxLifecycleCalls == 2   \* Start calls, and Stop calls, made on one estimator
MaxBackupPages == 2
MaxWaitTicks == 1
MaxLimPages == 2  \* pages handled by the FetchAll of a backup

\* ---------------------------------------------------------- input domains
PageLens == 0..2              \* records in one platform page
MsgIDs == {1, 2}              \* message identifiers
Dates == {1, 2}               \* message timestamps (Unix seconds)
MinDates == {0, 2}            \* opts.MinDate: unset, or a date with older messages
MaxDates == {0, 2}            \* opts.MaxDate: unset, or a date
MaxCounts == 0..3             \* opts.MaxCount
LimitChoices == {0, 50}       \* opts.Limit: unset, or the callers' page size
FetchAllChatIDs == {5}        \* the chat a FetchAll call is made for
SumChatIDs == {1, 5}          \* the chat a Summarize call is made for

\* ------------------------------------------------------ program constants
offsetDateBuffer == 86400
DefaultFetchAllLimit == 100
DefaultFetchLimit == 50
ZeroTime == 0
batchSize == 50
DefaultBatchTokens == 8000
progressIntervalSeconds == 5
defaultOptionsLimit == 50
handlerLimitCap == 100
pinnedChatLimit == 100
progressStateCreated == 0
progressStateRunning == 1
progressStateStopped == 2
telegramLaunchDate == 1376438400     \* 2013-08-14 00:00:00 UTC
defaultBackupCount == 1000
resultChCap == 1

\* ------------------------------------------------------------- utilities
Nil == <<>>
Some(r) == <<r>>

NoErr == [kind |-> "nil", batch |-> 0]
ErrResolvingPeer == [kind |-> "resolving peer", batch |-> 0]
ErrContextCanceled == [kind |-> "context canceled", batch |-> 0]
ErrFetchingBatch(n) == [kind |-> "fetching batch", batch |-> n]

IsZero(t) == t = ZeroTime
Before(a, b) == a < b

SeqsOfLen(S, L) == UNION {[1..k -> S] : k \in L}

\* ------------------------------------------------------------ data model
\* A raw platform record: a *tg.Message or another MessageClass variant
\* (service / empty message) that extractMessages skips.
\* Strings are sequences of Unicode code points.
SenderIDs == {7}
RawText == <<104, 105>>
RawRecords ==
    [kind : {"message"}, ID : MsgIDs, Date : Dates,
     FromID : SenderIDs, Message : {RawText}]
        \cup {[kind |-> "service", ID |-> 0, Date |-> 0,
                FromID |-> 0, Message |-> <<>>]}

\* messages.Message restricted to the fields the core reads: extractMessages
\* copies ID, Date (time.Unix), the sender and the text of a *tg.Message.
Message(raw) ==
    [ID |-> raw.ID, Date |-> raw.Date, SenderID |-> raw.FromID,
     Text |-> raw.Message]

\* A platform history response: MessagesMessages carries no count,
\* MessagesMessagesSlice / MessagesChannelMessages carry Count.
Histories ==
    UNION {{[kind |-> "messages", Messages |-> m, Count |-> 0],
            [kind |-> "slice", Messages |-> m, Count |-> Len(m)],
            [kind |-> "slice", Messages |-> m, Count |-> Len(m) + 1]} :
           m \in SeqsOfLen(RawRecords, PageLens)}

RECURSIVE extractMessages(_)
extractMessages(raws) ==
    IF raws = <<>> THEN <<>>
    ELSE IF Head(raws).kind = "message"
         THEN <<Message(Head(raws))>> \o extractMessages(Tail(raws))
         ELSE extractMessages(Tail(raws))

processHistory(history) ==
    LET msgs == extractMessages(history.Messages)
        totalCount == IF history.kind = "messages" THEN Len(history.Messages)
                      ELSE history.Count
    IN [Messages |-> msgs,
        Count |-> Len(msgs),
        Total |-> totalCount,
        HasMore |-> Len(msgs) > 0 /\ Len(msgs) < totalCount,
        NextID |-> IF Len(msgs) > 0 THEN msgs[Len(msgs)].ID ELSE 0]

\* The request fetchWithPeer builds from the per-page options.
historyRequest(bo) ==
    [Limit |-> IF bo.Limit <= 0 THEN DefaultFetchLimit ELSE bo.Limit,
     OffsetID |-> bo.OffsetID,
     OffsetDate |-> IF ~IsZero(bo.OffsetDate) THEN bo.OffsetDate ELSE 0]

\* Earliest message time of a page (the loop at the top of page handling).
RECURSIVE earliestOf(_, _)
earliestOf(msgs, acc) ==
    IF msgs = <<>> THEN acc
    ELSE earliestOf(Tail(msgs),
                    IF IsZero(acc) \/ Before(Head(msgs).Date, acc)
                    THEN Head(msgs).Date ELSE acc)

\* The filter-and-collect loop over one page: appends to acc until a message
\* older than MinDate is met (break) or MaxCount is reached (return).
\* The min date filter applied to one message.
beforeMinDate_OffByOne(date, minDate) ==
    ~IsZero(minDate) /\ Before(date, minDate - 1)
beforeMinDate(date, minDate) == ~IsZero(minDate) /\ Before(date, minDate)

\* The max count check made after each append.
reachedMaxCount_Exceeds(n, maxCount) == maxCount > 0 /\ n > maxCount
reachedMaxCount(n, maxCount) == maxCount > 0 /\ n >= maxCount

RECURSIVE collectPage(_, _, _, _)
collectPage(acc, msgs, minDate, maxCount) ==
    IF msgs = <<>> THEN [Messages |-> acc, reachedMinDate |-> FALSE, hitMaxCount |-> FALSE]
    ELSE IF beforeMinDate(Head(msgs).Date, minDate)
         THEN [Messages |-> acc, reachedMinDate |-> TRUE, hitMaxCount |-> FALSE]
         ELSE LET acc2 == Append(acc, Head(msgs))
              IN IF reachedMaxCount(Len(acc2), maxCount)
                 THEN [Messages |-> acc2, reachedMinDate |-> FALSE, hitMaxCount |-> TRUE]
                 ELSE collectPage(acc2, Tail(msgs), minDate, maxCount)

\* Stop conditions checked after a page has been collected.
stopAfterPage_HasMoreOnly(reachedMinDate, hasMore) == ~hasMore
stopAfterPage(reachedMinDate, hasMore) == reachedMinDate \/ ~hasMore

\* The onBatch invocation made for a page (none when onBatch is nil).
batchCall(cb, n, collected, earliestTime) ==
    IF cb THEN <<[batch |-> n, collected |-> collected, earliest |-> earliestTime]>>
    ELSE <<>>

\* The onBatch invocation made for an empty page.
emptyPageCall_None(cb, n, collected) == <<>>
emptyPageCall(cb, n, collected) == batchCall(cb, n, collected, ZeroTime)

\* ----------------------------------------------------------------- state
VARIABLES
    chatID,      \* the chat FetchAll is called for
    opts,        \* FetchOptions given to FetchAll
    onBatch,     \* TRUE when a BatchCallback is supplied
    pc,          \* "call", "top" (top of the pagination loop), "done"
    result,      \* the FetchResult being accumulated by fetchAllWithPeer
    batchOpts,   \* per-page FetchOptions
    batchNum,
    requests,    \* history requests sent to the platform, in order
    pages,       \* decoded pages (per-page FetchResult) received, in order
    callbacks,   \* onBatch invocations, in order
    pageHadRecords,  \* per page: the platform returned at least one record
    inner,       \* what fetchAllWithPeer returned
    ret,         \* what FetchAll returned to its caller
    splitPc,     \* batch planner run: "idle", "input", "done"
    splitMsgs,   \* its message list
    splitMax,    \* its maxTokens
    splitOut,    \* its batches
    extPc,       \* extractSubstring run: "idle", "input", "done"
    extText,     \* its string, as a sequence of code points
    extOffset,   \* its offset, in UTF-16 code units
    extLength,   \* its length, in UTF-16 code units
    extOut,      \* what it produced
    progMain,        \* who drives the estimator: "idle", "free", or the
                     \* position of the backup operation
    bp,              \* the immutable fields of the backupProgress
    bpArgs,          \* the arguments newBackupProgress was given
    bpState,         \* bp.state
    earliestMsgTime,
    messageCount,
    lastMsg,
    ticker,          \* "nil", "running", "stopped"
    done,            \* TRUE once close(bp.done) has run
    startPending,    \* Start calls past the compare-and-swap, before the launch
    hbLaunched,      \* heartbeat goroutines launched so far
    hbPc,            \* heartbeat: "none", "select", "tick", "send", "notify",
                     \* "exited"
    hbMsg,           \* its msg
    hbSnap,          \* the (progress, total) its Send computed
    ticks,           \* ticks delivered by the ticker
    sent,            \* progress notifications given to the server, in order
    panicked,        \* panic value, "" while there is none
    startCalls,      \* Start calls made
    stopCalls,       \* Stop calls made
    observed,        \* timestamps given to UpdateEarliestTime so far
    mainSnap,        \* the (progress, total) computed by Send in the operation
    bkBatch,         \* backup operation: pages handled by its FetchAll
    bkCollected,     \* backup operation: messages collected by its FetchAll
    bkCall,          \* backup operation: the onBatch call being executed
    sumPc,           \* Summarize: "idle", "call", "batch", "wait", "done"
    sumChatID,       \* the chat Summarize is called for
    sumSince,        \* its since
    sumBatchTokens,  \* s.batchTokens
    sumOnProgress,   \* TRUE when a ProgressCallback is supplied
    sumFetched,      \* what its FetchAll returned
    sumMessages,     \* result.Messages, as Summarize last left the slice
    sumBatches,      \* batches
    sumI,            \* batches completed (the loop index i)
    runningSummary,
    sumElapsed,      \* elapsed, in summarizeWithProgress
    sumTicks,        \* ticks delivered to summarizeWithProgress in this run
    provCalls,       \* Provider.Summarize calls dispatched, in order
    provReplies,     \* summaries the Provider returned, as received
    sumProgress,     \* onProgress invocations, in order
    sumRet,          \* what Summarize returned
    getPc,           \* a Fetch call: "idle", "call", "done"
    getCaller,       \* who calls Fetch: "messages_get", "pinned_chats", "direct"
    getArgs,         \* the arguments of the GetMessages tool request
    getOpts,         \* the FetchOptions given to Fetch
    getRequests,     \* history requests Fetch sent to the platform
    getRet,          \* what Fetch returned
    wPc,             \* summarizeWithProgress: "idle", "start", "busy" (about
                     \* to enter the select), "parked" (blocked in it),
                     \* "tick" (in the ticker case), "returned"
    wOnProgress,     \* whether onProgress is supplied
    gPc,             \* Provider goroutine: "none", "calling", "sending", "exited"
    gResult,         \* what provider.Summarize returned
    resultCh,        \* the buffered result channel
    wCtxDone,        \* ctx.Done() is closed
    wTicker,         \* "nil", "running", "stopped"
    wTickPending,    \* a tick waits in ticker.C
    wTicks,          \* ticks fired so far
    wElapsed,
    wProgress,       \* onProgress invocations, in order
    wRet,            \* what summarizeWithProgress returned
    wEvents,         \* "delivered" / "canceled", in the order they occurred
    limPc,           \* per operation: "idle", "begin", "take", "send", "done"
    limUnread,       \* per operation: opts.UnreadOnly
    limPages,        \* per operation: history requests sent
    limHeld,         \* per operation: the token its last Take returned
    limiterTaken,    \* tokens the Provider's limiter has handed out
    wire             \* requests sent to the platform, in order

fetchVars == <<chatID, opts, onBatch, pc, result, batchOpts, batchNum,
               requests, pages, callbacks, pageHadRecords, inner, ret>>
splitVars == <<splitPc, splitMsgs, splitMax, splitOut>>
extVars == <<extPc, extText, extOffset, extLength, extOut>>
progVars == <<progMain, bp, bpArgs, bpState, earliestMsgTime, messageCount,
              lastMsg, ticker, done, startPending, hbLaunched, hbPc, hbMsg,
              hbSnap, ticks, sent, panicked, startCalls, stopCalls, observed,
              mainSnap, bkBatch, bkCollected, bkCall>>
sumVars == <<sumPc, sumChatID, sumSince, sumBatchTokens, sumOnProgress,
             sumFetched,
             sumMessages, sumBatches, sumI, runningSummary, sumElapsed,
             sumTicks, provCalls, provReplies, sumProgress, sumRet>>
getVars == <<getPc, getCaller, getArgs, getOpts, getRequests, getRet>>
waitVars == <<wPc, wOnProgress, gPc, gResult, resultCh, wCtxDone, wTicker,
              wTickPending, wTicks, wElapsed, wProgress, wRet, wEvents>>
limVars == <<limPc, limUnread, limPages, limHeld, limiterTaken, wire>>
vars == <<fetchVars, splitVars, extVars, progVars, sumVars, getVars, waitVars,
          limVars>>

\* What a FetchAll step leaves alone, and what a batch planner step does.
notFetch == <<splitVars, extVars, progVars, sumVars, getVars,
            waitVars, limVars>>
notSplit == <<fetchVars, extVars, progVars, sumVars, getVars,
            waitVars, limVars>>
notExt == <<fetchVars, splitVars, progVars, sumVars, getVars,
            waitVars, limVars>>
notProg == <<fetchVars, splitVars, extVars, sumVars, getVars,
            waitVars, limVars>>
notSum == <<fetchVars, splitVars, extVars, progVars, getVars,
            waitVars, limVars>>
notGet == <<fetchVars, splitVars, extVars, progVars, sumVars,
            waitVars, limVars>>

SplitIdle ==
    /\ splitPc = "idle"
    /\ splitMsgs = <<>>
    /\ splitMax = 0
    /\ splitOut = <<>>

ExtIdle ==
    /\ extPc = "idle"
    /\ extText = <<>>
    /\ extOffset = 0
    /\ extLength = 0
    /\ extOut = <<>>

\* An exact fraction num/den (den > 0), in lowest terms.
Abs(n) == IF n < 0 THEN 0 - n ELSE n
RECURSIVE GCD(_, _)
GCD(a, b) == IF b = 0 THEN a ELSE GCD(b, a % b)
Rat(n, d) ==
    LET g == GCD(Abs(n), d) IN [num |-> n \div g, den |-> d \div g]
RatLeq(a, b) == a.num * b.den <= b.num * a.den

EmptyMsg == [kind |-> "", batch |-> 0, collected |-> 0]
NoSnap == [progress |-> Rat(0, 1), total |-> 0]
NoProgress ==
    [srv |-> FALSE, countLimit |-> 0, useDateProgress |-> FALSE,
     endTime |-> ZeroTime, totalSeconds |-> 0]
NoCall == [batch |-> 0, collected |-> 0, earliest |-> ZeroTime, last |-> FALSE]
NoArgs == [from |-> ZeroTime, to |-> ZeroTime, now |-> ZeroTime, countLimit |-> 0]

ProgIdle ==
    /\ progMain = "idle"
    /\ bp = NoProgress
    /\ bpArgs = NoArgs
    /\ bpState = progressStateCreated
    /\ earliestMsgTime = ZeroTime
    /\ messageCount = 0
    /\ lastMsg = EmptyMsg
    /\ ticker = "nil"
    /\ done = FALSE
    /\ startPending = 0
    /\ hbLaunched = 0
    /\ hbPc = "none"
    /\ hbMsg = EmptyMsg
    /\ hbSnap = NoSnap
    /\ ticks = 0
    /\ sent = <<>>
    /\ panicked = ""
    /\ startCalls = 0
    /\ stopCalls = 0
    /\ observed = {}
    /\ mainSnap = NoSnap
    /\ bkBatch = 0
    /\ bkCollected = 0
    /\ bkCall = NoCall

NoWaitResult == [summary |-> <<>>, err |-> FALSE]
NoWaitReturn == [returned |-> FALSE, summary |-> <<>>, err |-> "nil"]
WaitReturn(summary, err) == [returned |-> TRUE, summary |-> summary, err |-> err]

WaitIdle ==
    /\ wPc = "idle"
    /\ wOnProgress = FALSE
    /\ gPc = "none"
    /\ gResult = NoWaitResult
    /\ resultCh = <<>>
    /\ wCtxDone = FALSE
    /\ wTicker = "nil"
    /\ wTickPending = FALSE
    /\ wTicks = 0
    /\ wElapsed = 0
    /\ wProgress = <<>>
    /\ wRet = NoWaitReturn
    /\ wEvents = <<>>

LimOps == {1, 2}

LimIdle ==
    /\ limPc = [p \in LimOps |-> "idle"]
    /\ limUnread = [p \in LimOps |-> FALSE]
    /\ limPages = [p \in LimOps |-> 0]
    /\ limHeld = [p \in LimOps |-> 0]
    /\ limiterTaken = 0
    /\ wire = <<>>

NoGetArgs ==
    [chat_id |-> 0, limit |-> 0, offset_id |-> 0, unread_only |-> FALSE,
     uri_ok |-> TRUE]
NoFetchOptions ==
    [Limit |-> 0, OffsetID |-> 0, OffsetDate |-> ZeroTime, UnreadOnly |-> FALSE]

GetIdle ==
    /\ getPc = "idle"
    /\ getCaller = ""
    /\ getArgs = NoGetArgs
    /\ getOpts = NoFetchOptions
    /\ getRequests = <<>>
    /\ getRet = <<>>

NoSumErr == [kind |-> "nil", batch |-> 0, cause |-> ""]
SumErr(kind, batch, cause) == [kind |-> kind, batch |-> batch, cause |-> cause]
NoSumReturn == [returned |-> FALSE, summary |-> <<>>, err |-> NoSumErr]
SumReturn(summary, err) == [returned |-> TRUE, summary |-> summary, err |-> err]

SumIdle ==
    /\ sumPc = "idle"
    /\ sumChatID = 0
    /\ sumSince = ZeroTime
    /\ sumBatchTokens = 0
    /\ sumOnProgress = FALSE
    /\ sumFetched = <<>>
    /\ sumMessages = <<>>
    /\ sumBatches = <<>>
    /\ sumI = 0
    /\ runningSummary = <<>>
    /\ sumElapsed = 0
    /\ sumTicks = 0
    /\ provCalls = <<>>
    /\ provReplies = <<>>
    /\ sumProgress = <<>>
    /\ sumRet = NoSumReturn

NoReturn == [returned |-> FALSE, result |-> Nil, err |-> NoErr]
Return(r, e) == [returned |-> TRUE, result |-> r, err |-> e]

FetchOptionsSet ==
    [Limit : LimitChoices, MinDate : MinDates, MaxDate : MaxDates,
     MaxCount : MaxCounts]

EmptyResult == [ChatID |-> 0, Messages |-> <<>>, Count |-> 0, Total |-> 0]

Init ==
    /\ chatID \in FetchAllChatIDs
    /\ opts \in FetchOptionsSet
    /\ onBatch \in BOOLEAN
    /\ pc = "call"
    /\ result = EmptyResult
    /\ batchOpts = [Limit |-> 0, OffsetID |-> 0, OffsetDate |-> ZeroTime]
    /\ batchNum = 0
    /\ requests = <<>>
    /\ pages = <<>>
    /\ callbacks = <<>>
    /\ pageHadRecords = <<>>
    /\ inner = NoReturn
    /\ ret = NoReturn
    /\ WaitIdle
    /\ LimIdle
    /\ SplitIdle
    /\ ExtIdle
    /\ ProgIdle
    /\ SumIdle
    /\ GetIdle

\* fetchAllWithPeer when a page fetch fails.
fetchFailReturn_Partial(res, n) ==
    Return(Some([res EXCEPT !.Count = Len(res.Messages),
                            !.Total = Len(res.Messages)]),
           ErrFetchingBatch(n))
fetchFailReturn(res, n) == Return(Nil, ErrFetchingBatch(n))

\* FetchAll wraps fetchAllWithPeer: on error the result is dropped.
fetchAllReturn(id, r, e) ==
    IF e # NoErr THEN Return(Nil, e)
    ELSE Return(Some([r[1] EXCEPT !.ChatID = id]), NoErr)

\* The per-page options fetchAllWithPeer starts with.
firstBatchOpts(o) ==
    [Limit |-> IF o.Limit <= 0 THEN DefaultFetchAllLimit ELSE o.Limit,
     OffsetID |-> 0,
     OffsetDate |-> IF ~IsZero(o.MaxDate)
                    THEN o.MaxDate + offsetDateBuffer ELSE ZeroTime]

\* FetchAll: peer resolution fails.
ResolvePeerFail ==
    /\ pc = "call"
    /\ pc' = "done"
    /\ ret' = Return(Nil, ErrResolvingPeer)
    /\ UNCHANGED <<chatID, opts, onBatch, result, batchOpts, batchNum,
                   requests, pages, callbacks, pageHadRecords,
                   inner, notFetch>>

\* FetchAll: peer resolved, fetchAllWithPeer sets up result and batchOpts.
FetchAllStart ==
    /\ pc = "call"
    /\ result' = EmptyResult
    /\ batchOpts' = firstBatchOpts(opts)
    /\ batchNum' = 0
    /\ pc' = "top"
    /\ UNCHANGED <<chatID, opts, onBatch, requests, pages, callbacks, pageHadRecords, inner,
                   ret, notFetch>>

\* Top of the loop, ctx.Done() is ready (the context was cancelled or its
\* deadline passed at some earlier moment): partial result and error.
LoopCanceled ==
    /\ pc = "top"
    /\ LET r == [result EXCEPT !.Count = Len(result.Messages),
                               !.Total = Len(result.Messages)]
       IN /\ result' = r
          /\ inner' = Return(Some(r), ErrContextCanceled)
          /\ ret' = fetchAllReturn(chatID, Some(r), ErrContextCanceled)
    /\ pc' = "done"
    /\ UNCHANGED <<chatID, opts, onBatch, batchOpts, batchNum, requests, pages, callbacks,
                   pageHadRecords, notFetch>>

\* Default branch, batchNum++, and fetchWithPeer fails (upstream error or
\* unexpected response type).
fetchPageFail ==
    /\ pc = "top"
    /\ batchNum' = batchNum + 1
    /\ requests' = Append(requests, historyRequest(batchOpts))
    /\ inner' = fetchFailReturn(result, batchNum')
    /\ ret' = fetchAllReturn(chatID, inner'.result, inner'.err)
    /\ pc' = "done"
    /\ UNCHANGED <<chatID, opts, onBatch, result, batchOpts, pages, callbacks,
                   pageHadRecords,
                   notFetch>>

\* The cursor update at the bottom of the loop.
nextBatchOpts_Same(bo, batch) == bo
nextBatchOpts(bo, batch) ==
    [bo EXCEPT !.OffsetID = batch.NextID, !.OffsetDate = ZeroTime]

FetchPageFail == batchNum < MaxPages /\ fetchPageFail

\* What handling one decoded page does to the loop state.
handlePage(res, bo, n, batch, o, cb) ==
    IF Len(batch.Messages) = 0
    THEN [Messages |-> res.Messages,
          calls |-> emptyPageCall(cb, n, Len(res.Messages)),
          exit |-> "break", batchOpts |-> bo]
    ELSE LET earliestTime == earliestOf(batch.Messages, ZeroTime)
             c == collectPage(res.Messages, batch.Messages, o.MinDate, o.MaxCount)
             call == batchCall(cb, n, Len(c.Messages), earliestTime)
         IN IF c.hitMaxCount
            THEN [Messages |-> c.Messages, calls |-> call,
                  exit |-> "return", batchOpts |-> bo]
            ELSE IF stopAfterPage(c.reachedMinDate, batch.HasMore)
                 THEN [Messages |-> c.Messages, calls |-> call,
                       exit |-> "break", batchOpts |-> bo]
                 ELSE [Messages |-> c.Messages, calls |-> call,
                       exit |-> "next",
                       batchOpts |-> nextBatchOpts(bo, batch)]

\* Default branch, batchNum++, fetchWithPeer succeeds: the page is decoded
\* and handled. hs is the set of responses the platform may give.
fetchPageOk(hs) ==
    /\ pc = "top"
    /\ batchNum' = batchNum + 1
    /\ \E history \in hs :
         LET batch == processHistory(history)
             h == handlePage(result, batchOpts, batchNum', batch, opts, onBatch)
         IN /\ requests' = Append(requests, historyRequest(batchOpts))
            /\ pages' = Append(pages, batch)
            /\ pageHadRecords' = Append(pageHadRecords, Len(history.Messages) > 0)
            /\ callbacks' = callbacks \o h.calls
            /\ batchOpts' = h.batchOpts
            /\ IF h.exit = "next"
               THEN /\ result' = [result EXCEPT !.Messages = h.Messages]
                    /\ pc' = "top"
                    /\ UNCHANGED <<inner, ret>>
               ELSE LET r == [result EXCEPT !.Messages = h.Messages,
                                            !.Count = Len(h.Messages),
                                            !.Total = Len(h.Messages)]
                    IN /\ result' = r
                       /\ inner' = Return(Some(r), NoErr)
                       /\ ret' = fetchAllReturn(chatID, Some(r), NoErr)
                       /\ pc' = "done"
    /\ UNCHANGED <<chatID, opts, onBatch, notFetch>>

FetchPageOk == batchNum < MaxPages /\ fetchPageOk(Histories)

Next ==
    \/ ResolvePeerFail
    \/ FetchAllStart
    \/ LoopCanceled
    \/ FetchPageFail
    \/ FetchPageOk

Spec == Init /\ [][Next]_vars

\* FetchAll against a finite remote history whose pages respect the cursor:
\* a page requested with OffsetID c > 0 holds only messages with ID below c
\* (OffsetID 0 asks for the newest messages). The number of pages is not
\* capped here; every step of the loop is eventually taken.
belowCursor(raw, c) == raw.kind = "message" => (c = 0 \/ raw.ID < c)
RemoteHistories(c) ==
    {h \in Histories :
        \A i \in 1..Len(h.Messages) : belowCursor(h.Messages[i], c)}
RemotePageFail == fetchPageFail
RemotePageOk == fetchPageOk(RemoteHistories(batchOpts.OffsetID))
RemoteNext ==
    \/ ResolvePeerFail
    \/ FetchAllStart
    \/ LoopCanceled
    \/ RemotePageFail
    \/ RemotePageOk
SpecRemote == Init /\ [][RemoteNext]_vars /\ WF_vars(RemoteNext)

\* ========================================================= batch planner
\* Bytes a code point takes in a Go string (UTF-8).
Utf8Len(r) ==
    IF r < 128 THEN 1 ELSE IF r < 2048 THEN 2 ELSE IF r < 65536 THEN 3 ELSE 4

\* len(s) of a Go string: its length in bytes.
RECURSIVE byteLen(_)
byteLen(s) == IF s = <<>> THEN 0 ELSE Utf8Len(Head(s)) + byteLen(Tail(s))

\* %d of a non-negative or negative integer.
RECURSIVE digitsOf(_)
digitsOf(n) ==
    IF n < 10 THEN <<48 + n>> ELSE Append(digitsOf(n \div 10), 48 + (n % 10))
formatInt(n) == IF n < 0 THEN <<45>> \o digitsOf(0 - n) ELSE digitsOf(n)

pad2(n) == <<48 + (n \div 10), 48 + (n % 10)>>

\* Date.Format("2006-01-02 15:04"), rendered in UTC, for timestamps within
\* January 1970 (0 <= t < 31 days): "1970-01-DD HH:MM".
formatShortDate(t) ==
    <<49, 57, 55, 48, 45, 48, 49, 45>> \o pad2(1 + (t \div 86400)) \o <<32>>
        \o pad2((t \div 3600) % 24) \o <<58>> \o pad2((t \div 60) % 60)

\* "[%s] %d: %s"
FormatForSummary(msg) ==
    <<91>> \o formatShortDate(msg.Date) \o <<93, 32>>
        \o formatInt(msg.SenderID) \o <<58, 32>> \o msg.Text

estimateTokens(text) ==
    LET charCount == byteLen(text)
        runeCount == Len(text)
    IN IF charCount > runeCount * 2 THEN runeCount \div 2 ELSE charCount \div 4

\* The test that closes the current batch before a message is added.
startsNewBatch_AfterOvershoot(currentTokens, msgTokens, maxTokens, batchLen) ==
    currentTokens > maxTokens /\ batchLen > 0
startsNewBatch_MessageOnly(currentTokens, msgTokens, maxTokens, batchLen) ==
    msgTokens > maxTokens /\ batchLen > 0
startsNewBatch_AtLimit(currentTokens, msgTokens, maxTokens, batchLen) ==
    currentTokens + msgTokens >= maxTokens /\ batchLen > 0
startsNewBatch(currentTokens, msgTokens, maxTokens, batchLen) ==
    currentTokens + msgTokens > maxTokens /\ batchLen > 0

\* "Remember the last batch".
flushLast_Forgotten(batches, currentBatch) == batches
flushLast(batches, currentBatch) ==
    IF Len(currentBatch) > 0 THEN Append(batches, currentBatch) ELSE batches

RECURSIVE splitLoop(_, _, _, _, _)
splitLoop(msgs, maxTokens, batches, currentBatch, currentTokens) ==
    IF msgs = <<>> THEN flushLast(batches, currentBatch)
    ELSE LET msg == Head(msgs)
             msgTokens == estimateTokens(FormatForSummary(msg))
             flush == startsNewBatch(currentTokens, msgTokens, maxTokens,
                                     Len(currentBatch))
         IN splitLoop(Tail(msgs), maxTokens,
                      IF flush THEN Append(batches, currentBatch) ELSE batches,
                      Append(IF flush THEN <<>> ELSE currentBatch, msg),
                      (IF flush THEN 0 ELSE currentTokens) + msgTokens)

splitIntoBatchesByTokens(msgs, maxTokens) ==
    IF Len(msgs) = 0 THEN <<>> ELSE splitLoop(msgs, maxTokens, <<>>, <<>>, 0)

\* Inputs: texts of 5, 6, 7, 8 and 17 estimated tokens once formatted (empty,
\* "hi", "hello!", six Cyrillic letters, twelve emoji).
SplitTexts ==
    {<<>>, <<104, 105>>, <<104, 101, 108, 108, 111, 33>>,
     <<1087, 1088, 1080, 1074, 1077, 1090>>,
     [i \in 1..12 |-> 128075]}
SplitInputs ==
    {[i \in 1..Len(t) |-> [ID |-> i, Date |-> 60 * i, SenderID |-> sender,
                           Text |-> t[i]]] :
        t \in SeqsOfLen(SplitTexts, 0..MaxSplitMsgs), sender \in SenderIDs}
SplitBudgets == (0 - 1)..MaxBudget

\* The FetchAll variables while no FetchAll call is modelled.
FetchIdle ==
    /\ chatID = 0
    /\ opts = [Limit |-> 0, MinDate |-> ZeroTime, MaxDate |-> ZeroTime,
               MaxCount |-> 0]
    /\ onBatch = FALSE
    /\ pc = "idle"
    /\ result = EmptyResult
    /\ batchOpts = [Limit |-> 0, OffsetID |-> 0, OffsetDate |-> ZeroTime]
    /\ batchNum = 0
    /\ requests = <<>>
    /\ pages = <<>>
    /\ callbacks = <<>>
    /\ pageHadRecords = <<>>
    /\ inner = NoReturn
    /\ ret = NoReturn

SplitInit ==
    /\ FetchIdle
    /\ WaitIdle
    /\ LimIdle
    /\ ExtIdle
    /\ ProgIdle
    /\ SumIdle
    /\ GetIdle
    /\ splitPc = "input"
    /\ splitMsgs \in SplitInputs
    /\ splitMax \in SplitBudgets
    /\ splitOut = <<>>

\* splitIntoBatchesByTokens(splitMsgs, splitMax) is called and returns.
SplitApply ==
    /\ splitPc = "input"
    /\ splitOut' = splitIntoBatchesByTokens(splitMsgs, splitMax)
    /\ splitPc' = "done"
    /\ UNCHANGED <<splitMsgs, splitMax, notSplit>>

SplitNext == SplitApply

SpecSplit == SplitInit /\ [][SplitNext]_vars

\* ============================================================== Fetch
\* messages.DefaultFetchOptions
DefaultFetchOptions == [NoFetchOptions EXCEPT !.Limit = defaultOptionsLimit]

\* The cap the GetMessages handler puts on the requested limit.
capLimit_None(limit) == limit
capLimit(limit) == IF limit > handlerLimitCap THEN handlerLimitCap ELSE limit

\* The FetchOptions MessagesGetHandler.Handle builds from the request.
messagesGetOptions(args) ==
    [DefaultFetchOptions EXCEPT
        !.Limit = IF args.limit > 0 THEN capLimit(args.limit) ELSE @,
        !.OffsetID = IF args.offset_id > 0 THEN args.offset_id ELSE @,
        !.UnreadOnly = args.unread_only]

\* The FetchOptions parseMessagesURI builds from the query of a
\* telegram://chat/{chat_id}/messages URI (an absent or unparsable limit or
\* offset_id behaves as 0, an absent unread_only as false).
messagesURIOptions(args) ==
    [DefaultFetchOptions EXCEPT
        !.Limit = IF args.limit > 0 THEN capLimit(args.limit) ELSE @,
        !.OffsetID = args.offset_id,
        !.UnreadOnly = args.unread_only]

\* The FetchOptions handlePinnedChat uses.
pinnedChatOptions == [NoFetchOptions EXCEPT !.Limit = pinnedChatLimit]

\* The request fetchWithPeer builds: MinID is set for unread-only fetches
\* when the dialog has a read marker.
fetchRequest(o, readInboxMaxID) ==
    [Limit |-> IF o.Limit <= 0 THEN DefaultFetchLimit ELSE o.Limit,
     OffsetID |-> o.OffsetID,
     OffsetDate |-> IF ~IsZero(o.OffsetDate) THEN o.OffsetDate ELSE 0,
     MinID |-> IF o.UnreadOnly /\ readInboxMaxID > 0 THEN readInboxMaxID ELSE 0]

\* What the platform does during one Fetch: whether the peer resolves, the
\* read marker of the dialog (-1: the dialog request fails), and the history
\* response (none: the history request fails).
\* The response types processHistory decodes; any other type is an error.
knownHistory(h) == h.kind \in {"messages", "slice"}
UnexpectedHistory == [kind |-> "notModified", Messages |-> <<>>, Count |-> 3]
ErrGettingReadInboxMaxID == [kind |-> "getting read inbox max id", batch |-> 0]
ErrGettingMessages == [kind |-> "getting messages", batch |-> 0]
ErrUnexpectedResponseType == [kind |-> "unexpected response type", batch |-> 0]
ErrParsingURI == [kind |-> "parsing URI", batch |-> 0]

FetchEnvs ==
    [peerOk : BOOLEAN, readInboxMaxID : {0 - 1, 0, 3},
     history : {Nil} \cup {Some(h) : h \in Histories \cup {UnexpectedHistory}}]

\* Provider.Fetch for chat id: the history requests sent and the value
\* returned.
Fetch(id, o, env) ==
    IF ~env.peerOk
    THEN [requests |-> <<>>, ret |-> Return(Nil, ErrResolvingPeer)]
    ELSE IF o.UnreadOnly /\ env.readInboxMaxID < 0
    THEN [requests |-> <<>>, ret |-> Return(Nil, ErrGettingReadInboxMaxID)]
    ELSE LET req == fetchRequest(o, IF o.UnreadOnly THEN env.readInboxMaxID ELSE 0)
         IN IF env.history = Nil
            THEN [requests |-> <<req>>, ret |-> Return(Nil, ErrGettingMessages)]
            ELSE IF ~knownHistory(env.history[1])
            THEN [requests |-> <<req>>,
                  ret |-> Return(Nil, ErrUnexpectedResponseType)]
            ELSE [requests |-> <<req>>,
                  ret |-> Return(Some([ChatID |-> id] @@ processHistory(env.history[1])),
                                 NoErr)]

GetLimits == {0 - 1, 0, 1, 100, 101}
GetOffsetIDs == {0 - 1, 0, 5}
GetChatIDs == {0, 1}
GetArgs ==
    [chat_id : GetChatIDs, limit : GetLimits, offset_id : GetOffsetIDs,
     unread_only : BOOLEAN, uri_ok : {TRUE}]
\* A call that carries a chat id only.
GetChats == {[NoGetArgs EXCEPT !.chat_id = c] : c \in GetChatIDs}
\* A resource URI: one that does not parse, or a chat and its query.
GetURIs == GetArgs \cup {[NoGetArgs EXCEPT !.uri_ok = FALSE]}

\* A Fetch call is about to be made by the GetMessages tool, by the chat
\* messages resource, by the pinned chat resource, or by a caller that fills
\* FetchOptions itself.
GetInit ==
    /\ FetchIdle
    /\ WaitIdle
    /\ LimIdle
    /\ SplitIdle
    /\ ExtIdle
    /\ ProgIdle
    /\ SumIdle
    /\ getPc = "call"
    /\ \/ getCaller = "messages_get" /\ getArgs \in GetArgs
          /\ getOpts = NoFetchOptions
       \/ getCaller = "chat_messages" /\ getArgs \in GetURIs
          /\ getOpts = NoFetchOptions
       \/ getCaller = "pinned_chats" /\ getArgs \in GetChats
          /\ getOpts = pinnedChatOptions
       \/ getCaller = "direct" /\ getArgs \in GetChats
          /\ getOpts \in {[NoFetchOptions EXCEPT !.Limit = l] : l \in LimitChoices}
    /\ getRequests = <<>>
    /\ getRet = <<>>

\* MessagesGetHandler.Handle without a chat_id: nothing is fetched.
GetChatIdRequired ==
    /\ getPc = "call"
    /\ getCaller = "messages_get"
    /\ getArgs.chat_id = 0
    /\ getPc' = "done"
    /\ UNCHANGED <<getCaller, getArgs, getOpts, getRequests, getRet, notGet>>

\* MessagesGetHandler.Handle: the options are built and Fetch is called.
GetHandle ==
    /\ getPc = "call"
    /\ getCaller = "messages_get"
    /\ getArgs.chat_id # 0
    /\ getOpts' = messagesGetOptions(getArgs)
    /\ \E env \in FetchEnvs :
         LET f == Fetch(getArgs.chat_id, getOpts', env)
         IN getRequests' = f.requests /\ getRet' = f.ret
    /\ getPc' = "done"
    /\ UNCHANGED <<getCaller, getArgs, notGet>>

\* ChatMessagesHandler.Handle: the URI does not parse, nothing is fetched.
GetUriInvalid ==
    /\ getPc = "call"
    /\ getCaller = "chat_messages"
    /\ ~getArgs.uri_ok
    /\ getRet' = Return(Nil, ErrParsingURI)
    /\ getPc' = "done"
    /\ UNCHANGED <<getCaller, getArgs, getOpts, getRequests, notGet>>

\* ChatMessagesHandler.Handle: parseMessagesURI builds the options and Fetch
\* is called.
GetResource ==
    /\ getPc = "call"
    /\ getCaller = "chat_messages"
    /\ getArgs.uri_ok
    /\ getOpts' = messagesURIOptions(getArgs)
    /\ \E env \in FetchEnvs :
         LET f == Fetch(getArgs.chat_id, getOpts', env)
         IN getRequests' = f.requests /\ getRet' = f.ret
    /\ getPc' = "done"
    /\ UNCHANGED <<getCaller, getArgs, notGet>>

\* Fetch called with options the caller filled in.
GetFetch ==
    /\ getPc = "call"
    /\ getCaller \in {"pinned_chats", "direct"}
    /\ \E env \in FetchEnvs :
         LET f == Fetch(getArgs.chat_id, getOpts, env)
         IN getRequests' = f.requests /\ getRet' = f.ret
    /\ getPc' = "done"
    /\ UNCHANGED <<getCaller, getArgs, getOpts, notGet>>

GetNext ==
    \/ GetChatIdRequired
    \/ GetHandle
    \/ GetUriInvalid
    \/ GetResource
    \/ GetFetch

\* Fetch calls and FetchAll calls.
SpecRequests == (Init \/ GetInit) /\ [][Next \/ GetNext]_vars

\* ==================================================== rolling summarizer
\* unicode.IsSpace
isSpace(r) ==
    \/ r \in {9, 10, 11, 12, 13, 32, 133, 160, 5760, 8232, 8233, 8239, 8287, 12288}
    \/ (r >= 8192 /\ r <= 8202)

RECURSIVE trimLeft(_)
trimLeft(s) ==
    IF s # <<>> /\ isSpace(Head(s)) THEN trimLeft(Tail(s)) ELSE s
RECURSIVE trimRight(_)
trimRight(s) ==
    IF s # <<>> /\ isSpace(s[Len(s)]) THEN trimRight(SubSeq(s, 1, Len(s) - 1))
    ELSE s
\* strings.TrimSpace
TrimSpace_None(s) == s
TrimSpace(s) == trimRight(trimLeft(s))

\* messages.Reverse
Reverse_None(msgs) == msgs
Reverse(msgs) == [i \in 1..Len(msgs) |-> msgs[Len(msgs) + 1 - i]]

\* messages.FilterTextOnly
FilterTextOnly_KeepAll(msgs) == msgs
RECURSIVE FilterTextOnly(_)
FilterTextOnly(msgs) ==
    IF msgs = <<>> THEN <<>>
    ELSE IF Head(msgs).Text # <<>>
         THEN <<Head(msgs)>> \o FilterTextOnly(Tail(msgs))
         ELSE FilterTextOnly(Tail(msgs))

\* messages.FormatBatchForSummary
RECURSIVE FormatBatchForSummary(_)
FormatBatchForSummary(msgs) ==
    IF msgs = <<>> THEN <<>>
    ELSE IF Head(msgs).Text = <<>> THEN FormatBatchForSummary(Tail(msgs))
         ELSE FormatForSummary(Head(msgs)) \o <<10>>
                  \o FormatBatchForSummary(Tail(msgs))

\* fmt.Sprintf(promptTemplate, goal, runningSummary, formattedMessages): the
\* fixed template is left out, the three arguments are kept.
promptOf(goal, summary, formatted) ==
    [goal |-> goal, summary |-> summary, messages |-> formatted]

\* "No messages found in the specified period."
NoMessagesFound ==
    <<78, 111, 32, 109, 101, 115, 115, 97, 103, 101, 115, 32, 102, 111, 117,
      110, 100, 32, 105, 110, 32, 116, 104, 101, 32, 115, 112, 101, 99, 105,
      102, 105, 101, 100, 32, 112, 101, 114, 105, 111, 100, 46>>
\* "No text messages found in the specified period."
NoTextMessagesFound ==
    <<78, 111, 32, 116, 101, 120, 116, 32, 109, 101, 115, 115, 97, 103, 101,
      115, 32, 102, 111, 117, 110, 100, 32, 105, 110, 32, 116, 104, 101, 32,
      115, 112, 101, 99, 105, 102, 105, 101, 100, 32, 112, 101, 114, 105, 111,
      100, 46>>

\* The test for the first early return of Summarize.
noMessages_Never(msgs) == FALSE
noMessages(msgs) == Len(msgs) = 0

\* NewSummarizer
newBatchTokens(batchTokens) ==
    IF batchTokens <= 0 THEN DefaultBatchTokens ELSE batchTokens

\* The options Summarize gives to FetchAll.
summarizeFetchOptions(since) ==
    [Limit |-> batchSize, MinDate |-> since, MaxDate |-> ZeroTime, MaxCount |-> 0]

\* fetchAllWithPeer without callback over the platform responses hs, from
\* page number n + 1 on: what it has collected when it stops, and whether
\* it stopped on the last response given.
RECURSIVE runPages(_, _, _, _, _)
runPages(hs, res, bo, n, o) ==
    IF hs = <<>> THEN [ended |-> FALSE, Messages |-> res.Messages]
    ELSE LET h == handlePage(res, bo, n + 1, processHistory(Head(hs)), o, FALSE)
         IN IF h.exit = "next"
            THEN runPages(Tail(hs), [res EXCEPT !.Messages = h.Messages],
                          h.batchOpts, n + 1, o)
            ELSE [ended |-> Tail(hs) = <<>>, Messages |-> h.Messages]

\* Platform pages of a summarized chat: text messages and media-only
\* messages (empty text).
SumGoal == <<103>>
SumTexts == {<<>>, RawText}
SumRawRecords ==
    [kind : {"message"}, ID : {1}, Date : Dates, FromID : SenderIDs,
     Message : SumTexts]
SumHistories ==
    UNION {{[kind |-> "messages", Messages |-> m, Count |-> 0],
            [kind |-> "slice", Messages |-> m, Count |-> Len(m) + 1]} :
           m \in SeqsOfLen(SumRawRecords, PageLens)}
SumPageCounts == {1, 2}
SumTokenChoices == {0, 6, 12}
\* Provider replies: " ok\n" and "s".
SumReplies == {<<32, 111, 107, 10>>, <<115>>}
SumFetchErrors == {ErrResolvingPeer, ErrContextCanceled, ErrFetchingBatch(1)}

SumInit ==
    /\ FetchIdle
    /\ WaitIdle
    /\ LimIdle
    /\ SplitIdle
    /\ ExtIdle
    /\ ProgIdle
    /\ GetIdle
    /\ sumPc = "call"
    /\ sumChatID \in SumChatIDs
    /\ sumSince \in MinDates
    /\ \E t \in SumTokenChoices : sumBatchTokens = newBatchTokens(t)
    /\ sumOnProgress \in BOOLEAN
    /\ sumFetched = <<>>
    /\ sumMessages = <<>>
    /\ sumBatches = <<>>
    /\ sumI = 0
    /\ runningSummary = <<>>
    /\ sumElapsed = 0
    /\ sumTicks = 0
    /\ provCalls = <<>>
    /\ provReplies = <<>>
    /\ sumProgress = <<>>
    /\ sumRet = NoSumReturn

\* onProgress(current, total, message), when a callback is supplied.
progressCall(cb, current, total, elapsed) ==
    IF cb THEN <<[current |-> current, total |-> total, elapsed |-> elapsed]>>
    ELSE <<>>

\* The loop body up to the dispatch of the Provider call for batch i + 1.
dispatchBatch_First(batches, i, summary) ==
    [batch |-> 1,
     prompt |-> promptOf(SumGoal, summary, FormatBatchForSummary(batches[1]))]
dispatchBatch(batches, i, summary) ==
    [batch |-> i + 1,
     prompt |-> promptOf(SumGoal, summary, FormatBatchForSummary(batches[i + 1]))]

\* Summarize: FetchAll fails.
SumFetchFail ==
    /\ sumPc = "call"
    /\ \E e \in SumFetchErrors :
         /\ sumFetched' = Return(Nil, e)
         /\ sumRet' = SumReturn(<<>>, SumErr("fetching messages", e.batch, e.kind))
    /\ sumPc' = "done"
    /\ UNCHANGED <<sumChatID, sumSince, sumBatchTokens, sumOnProgress,
                   sumMessages,
                   sumBatches, sumI, runningSummary, sumElapsed, sumTicks,
                   provCalls, provReplies, sumProgress, notSum>>

\* Summarize: FetchAll succeeds; the early returns, or the batches are
\* planned and the Provider call for the first batch is dispatched.
SumFetchOk ==
    /\ sumPc = "call"
    /\ \E hs \in SeqsOfLen(SumHistories, SumPageCounts) :
         LET o == summarizeFetchOptions(sumSince)
             run == runPages(hs, EmptyResult, firstBatchOpts(o), 0, o)
             fetched == run.Messages
             textMessages == FilterTextOnly(Reverse(fetched))
             batches == splitIntoBatchesByTokens(textMessages, sumBatchTokens)
         IN /\ run.ended
            /\ sumFetched' = Return(Some([EmptyResult EXCEPT
                                            !.ChatID = sumChatID,
                                            !.Messages = fetched,
                                            !.Count = Len(fetched),
                                            !.Total = Len(fetched)]), NoErr)
            /\ IF noMessages(fetched)
               THEN /\ sumRet' = SumReturn(NoMessagesFound, NoSumErr)
                    /\ sumPc' = "done"
                    /\ UNCHANGED <<sumMessages, sumBatches, provCalls, sumProgress>>
               ELSE /\ sumMessages' = Reverse(fetched)
                    /\ IF Len(textMessages) = 0
                       THEN /\ sumRet' = SumReturn(NoTextMessagesFound, NoSumErr)
                            /\ sumPc' = "done"
                            /\ UNCHANGED <<sumBatches, provCalls, sumProgress>>
                       ELSE /\ sumBatches' = batches
                            /\ sumRet' = sumRet
                            /\ sumPc' = "wait"
                            /\ sumProgress' =
                                 progressCall(sumOnProgress, 1, Len(batches), 0)
                            /\ provCalls' = <<dispatchBatch(batches, 0, <<>>)>>
    /\ UNCHANGED <<sumChatID, sumSince, sumBatchTokens, sumOnProgress, sumI,
                   runningSummary,
                   sumElapsed, sumTicks, provReplies, notSum>>

\* summarizeWithProgress: the ticker fires before the Provider has answered.
SumTick ==
    /\ sumPc = "wait"
    /\ sumTicks < MaxSumTicks
    /\ sumTicks' = sumTicks + 1
    /\ sumElapsed' = sumElapsed + progressIntervalSeconds
    /\ sumProgress' = sumProgress \o
         progressCall(sumOnProgress, sumI + 1, Len(sumBatches), sumElapsed')
    /\ UNCHANGED <<sumPc, sumChatID, sumSince, sumBatchTokens, sumOnProgress,
                   sumFetched,
                   sumMessages, sumBatches, sumI, runningSummary, provCalls,
                   provReplies,
                   sumRet, notSum>>

\* summarizeWithProgress: the context is done before the Provider answered.
SumCanceled ==
    /\ sumPc = "wait"
    /\ sumRet' = SumReturn(<<>>, SumErr("summarizing batch", sumI + 1,
                                        "summarization canceled"))
    /\ sumPc' = "done"
    /\ UNCHANGED <<sumChatID, sumSince, sumBatchTokens, sumOnProgress,
                   sumFetched,
                   sumMessages, sumBatches, sumI, runningSummary, sumElapsed,
                   sumTicks, provCalls, provReplies, sumProgress, notSum>>

\* What Summarize returns when the Provider call for batch k failed.
providerFailReturn_Partial(summary, k) ==
    SumReturn(summary, SumErr("summarizing batch", k, "provider"))
providerFailReturn(summary, k) ==
    SumReturn(<<>>, SumErr("summarizing batch", k, "provider"))

\* The Provider call fails.
SumProviderFail ==
    /\ sumPc = "wait"
    /\ sumRet' = providerFailReturn(runningSummary, sumI + 1)
    /\ sumPc' = "done"
    /\ UNCHANGED <<sumChatID, sumSince, sumBatchTokens, sumOnProgress,
                   sumFetched,
                   sumMessages, sumBatches, sumI, runningSummary, sumElapsed,
                   sumTicks, provCalls, provReplies, sumProgress, notSum>>

\* The Provider call returns a summary: it becomes the running summary;
\* the loop goes on to the next batch and dispatches its Provider call, or
\* Summarize returns the running summary after the last batch.
SumProviderOk ==
    /\ sumPc = "wait"
    /\ \E reply \in SumReplies :
         LET summary == TrimSpace(reply)
         IN /\ runningSummary' = summary
            /\ provReplies' = Append(provReplies, reply)
            /\ sumI' = sumI + 1
            /\ IF sumI + 1 < Len(sumBatches)
               THEN /\ sumProgress' = sumProgress \o
                         progressCall(sumOnProgress, sumI + 2, Len(sumBatches), 0)
                    /\ provCalls' =
                         Append(provCalls, dispatchBatch(sumBatches, sumI + 1, summary))
                    /\ sumElapsed' = 0
                    /\ UNCHANGED <<sumPc, sumRet>>
               ELSE /\ sumRet' = SumReturn(summary, NoSumErr)
                    /\ sumPc' = "done"
                    /\ UNCHANGED <<sumProgress, provCalls, sumElapsed>>
    /\ UNCHANGED <<sumChatID, sumSince, sumBatchTokens, sumOnProgress,
                   sumFetched,
                   sumMessages, sumBatches, sumTicks, notSum>>

SumNext ==
    \/ SumFetchFail
    \/ SumFetchOk
    \/ SumTick
    \/ SumCanceled
    \/ SumProviderFail
    \/ SumProviderOk

SpecSum == SumInit /\ [][SumNext]_vars

\* ===================================================== progress estimator
\* Timestamps around the platform launch date: the from and to dates of a
\* request, the clock, and message timestamps.
ProgFroms == {ZeroTime, telegramLaunchDate + 10}
ProgTos == {ZeroTime, telegramLaunchDate + 14, telegramLaunchDate + 6}
ProgNows == {telegramLaunchDate + 12}
ProgStamps == {telegramLaunchDate + 4, telegramLaunchDate + 13,
               telegramLaunchDate + 15}
ProgLimits == {0 - 1, 0, 2}
ProgCounts == 0..3

\* int64(a.Sub(b).Seconds()) for times that are whole seconds.
secondsBetween(a, b) == a - b

dateMode_AnyDateFilter(hasDateFilter, countLimit) == hasDateFilter
dateMode(hasDateFilter, countLimit) == hasDateFilter /\ countLimit = 0

newBackupProgress(srv, fromDate, toDate, now, countLimit) ==
    LET hasDateFilter == ~IsZero(fromDate) \/ ~IsZero(toDate)
        useDate == dateMode(hasDateFilter, countLimit)
        startTime == IF ~IsZero(fromDate) THEN fromDate ELSE telegramLaunchDate
        endTime == IF ~IsZero(toDate) THEN toDate ELSE now
        total == secondsBetween(endTime, startTime)
    IN [srv |-> srv, countLimit |-> countLimit, useDateProgress |-> useDate,
        endTime |-> IF useDate THEN endTime ELSE ZeroTime,
        totalSeconds |-> IF useDate THEN (IF total < 1 THEN 1 ELSE total) ELSE 0]

clampCovered_None(coveredSeconds) == coveredSeconds
clampCovered(coveredSeconds) == IF coveredSeconds < 0 THEN 0 ELSE coveredSeconds

clamp100(progress) == IF progress.num > 100 * progress.den THEN Rat(100, 1) ELSE progress

getProgress(b, earliest, count) ==
    [total |-> 100,
     progress |->
        IF b.useDateProgress
        THEN IF IsZero(earliest) THEN Rat(0, 1)
             ELSE clamp100(Rat(clampCovered(secondsBetween(b.endTime, earliest)) * 100,
                               b.totalSeconds))
        ELSE IF b.countLimit > 0
             THEN clamp100(Rat(count * 100, b.countLimit))
             ELSE Rat(0, 1)]

\* atomic.Uint32.CompareAndSwap
casState_Always(cur, old, new) == [swapped |-> TRUE, state |-> new]
casState(cur, old, new) ==
    [swapped |-> cur = old, state |-> IF cur = old THEN new ELSE cur]

\* "Fetching messages (batch %d, %d messages so far)..."
fetchingMsg(batch, collected) ==
    [kind |-> "fetching", batch |-> batch, collected |-> collected]
\* "Collected %d messages"
collectedMsg(n) == [kind |-> "collected", batch |-> 0, collected |-> n]

Notification(snap, message, sender) ==
    [progress |-> snap.progress, total |-> snap.total, message |-> message,
     sender |-> sender]

ProgInit ==
    /\ FetchIdle
    /\ WaitIdle
    /\ LimIdle
    /\ SplitIdle
    /\ ExtIdle
    /\ SumIdle
    /\ GetIdle
    /\ progMain = "free"
    /\ \E srv \in BOOLEAN, f \in ProgFroms, t \in ProgTos, n \in ProgNows,
          c \in ProgLimits :
         /\ bp = newBackupProgress(srv, f, t, n, c)
         /\ bpArgs = [from |-> f, to |-> t, now |-> n, countLimit |-> c]
    /\ bpState = progressStateCreated
    /\ earliestMsgTime = ZeroTime
    /\ messageCount = 0
    /\ lastMsg = EmptyMsg
    /\ ticker = "nil"
    /\ done = FALSE
    /\ startPending = 0
    /\ hbLaunched = 0
    /\ hbPc = "none"
    /\ hbMsg = EmptyMsg
    /\ hbSnap = NoSnap
    /\ ticks = 0
    /\ sent = <<>>
    /\ panicked = ""
    /\ startCalls = 0
    /\ stopCalls = 0
    /\ observed = {}
    /\ mainSnap = NoSnap
    /\ bkBatch = 0
    /\ bkCollected = 0
    /\ bkCall = NoCall

\* What a step of the caller of Start or Stop leaves alone.
lifecycleFrame ==
    <<bp, bpArgs, earliestMsgTime, messageCount, lastMsg, hbMsg,
      hbSnap, ticks, sent, observed, mainSnap, notProg>>
\* What a step of the heartbeat leaves alone.
hbFrame ==
    <<progMain, bp, bpArgs, bpState, earliestMsgTime, messageCount, lastMsg,
      ticker, done, startPending, hbLaunched, panicked, startCalls, stopCalls,
      observed, mainSnap, bkBatch, bkCollected, bkCall, notProg>>
\* What a setter leaves alone.
setterFrame ==
    <<bp, bpArgs, bpState, ticker, done, startPending, hbLaunched,
      hbPc, hbMsg, hbSnap, ticks, sent, panicked, startCalls, stopCalls,
      mainSnap, notProg>>
\* The position and the locals of the operation that owns the estimator.
ownerLocals == <<progMain, bkBatch, bkCollected, bkCall>>

\* Start, first statement: the compare-and-swap, or the panic.
StartCAS ==
    LET c == casState(bpState, progressStateCreated, progressStateRunning)
    IN /\ panicked = ""
       /\ startCalls' = startCalls + 1
       /\ bpState' = c.state
       /\ IF c.swapped
          THEN startPending' = startPending + 1 /\ panicked' = ""
          ELSE startPending' = startPending
               /\ panicked' = "backupProgress already started"
       /\ UNCHANGED <<ticker, done, hbLaunched, hbPc, stopCalls, lifecycleFrame>>

\* Start, the rest: the ticker is created and the goroutine launched.
StartLaunch ==
    /\ panicked = ""
    /\ startPending > 0
    /\ startPending' = startPending - 1
    /\ ticker' = "running"
    /\ hbLaunched' = hbLaunched + 1
    /\ hbPc' = "select"
    /\ UNCHANGED <<bpState, done, panicked, startCalls, stopCalls, lifecycleFrame>>

\* Stop: the compare-and-swap or the panic, then the ticker is stopped if
\* there is one and done is closed.
Stop ==
    LET c == casState(bpState, progressStateRunning, progressStateStopped)
    IN /\ panicked = ""
       /\ stopCalls' = stopCalls + 1
       /\ bpState' = c.state
       /\ IF c.swapped
          THEN /\ ticker' = IF ticker # "nil" THEN "stopped" ELSE ticker
               /\ done' = TRUE
               /\ panicked' = ""
          ELSE /\ UNCHANGED <<ticker, done>>
               /\ panicked' = "backupProgress is not running"
       /\ UNCHANGED <<startPending, hbLaunched, hbPc, startCalls, lifecycleFrame>>

SetMessage(msg) ==
    /\ panicked = ""
    /\ lastMsg' = msg
    /\ UNCHANGED <<earliestMsgTime, messageCount, observed, setterFrame>>

SetMessageCount(count) ==
    /\ panicked = ""
    /\ messageCount' = count
    /\ UNCHANGED <<earliestMsgTime, lastMsg, observed, setterFrame>>

updatedEarliest(cur, t) == IF IsZero(cur) \/ Before(t, cur) THEN t ELSE cur

UpdateEarliestTime(t) ==
    /\ panicked = ""
    /\ earliestMsgTime' = updatedEarliest(earliestMsgTime, t)
    /\ observed' = observed \cup {t}
    /\ UNCHANGED <<messageCount, lastMsg, setterFrame>>

\* The heartbeat goroutine receives a tick from ticker.C.
HbTick ==
    /\ panicked = ""
    /\ hbPc = "select"
    /\ ticker = "running"
    /\ ticks < MaxTicks
    /\ ticks' = ticks + 1
    /\ hbPc' = "tick"
    /\ UNCHANGED <<hbMsg, hbSnap, sent, hbFrame>>

\* It reads lastMsg under the mutex and calls Send when the message is not
\* empty.
HbReadMsg ==
    /\ panicked = ""
    /\ hbPc = "tick"
    /\ hbMsg' = lastMsg
    /\ hbPc' = IF lastMsg # EmptyMsg /\ bp.srv THEN "send" ELSE "select"
    /\ UNCHANGED <<ticks, hbSnap, sent, hbFrame>>

\* Send in the heartbeat: getProgress, under the mutex.
HbGetProgress ==
    /\ panicked = ""
    /\ hbPc = "send"
    /\ hbSnap' = getProgress(bp, earliestMsgTime, messageCount)
    /\ hbPc' = "notify"
    /\ UNCHANGED <<hbMsg, ticks, sent, hbFrame>>

\* Send in the heartbeat: the notification is handed to the server.
HbNotify ==
    /\ panicked = ""
    /\ hbPc = "notify"
    /\ sent' = Append(sent, Notification(hbSnap, hbMsg, "heartbeat"))
    /\ hbPc' = "select"
    /\ UNCHANGED <<hbMsg, hbSnap, ticks, hbFrame>>

\* The heartbeat goroutine finds done closed and returns.
HbExit ==
    /\ panicked = ""
    /\ hbPc = "select"
    /\ done
    /\ hbPc' = "exited"
    /\ UNCHANGED <<hbMsg, hbSnap, ticks, sent, hbFrame>>

\* Any caller, at any moment.
FreeStart ==
    /\ progMain = "free"
    /\ startCalls < MaxLifecycleCalls
    /\ StartCAS
    /\ UNCHANGED ownerLocals
FreeLaunch == progMain = "free" /\ StartLaunch /\ UNCHANGED ownerLocals
FreeStop ==
    /\ progMain = "free"
    /\ stopCalls < MaxLifecycleCalls
    /\ Stop
    /\ UNCHANGED ownerLocals
FreeSetMessage ==
    /\ progMain = "free"
    /\ \E msg \in {EmptyMsg, fetchingMsg(1, 1)} : SetMessage(msg)
    /\ UNCHANGED ownerLocals
FreeSetMessageCount ==
    /\ progMain = "free"
    /\ \E count \in ProgCounts : SetMessageCount(count)
    /\ UNCHANGED ownerLocals
FreeUpdateEarliestTime ==
    /\ progMain = "free"
    /\ \E t \in ProgStamps : UpdateEarliestTime(t)
    /\ UNCHANGED ownerLocals

ProgNext ==
    \/ FreeStart
    \/ FreeLaunch
    \/ FreeStop
    \/ FreeSetMessage
    \/ FreeSetMessageCount
    \/ FreeUpdateEarliestTime
    \/ HbTick
    \/ HbReadMsg
    \/ HbGetProgress
    \/ HbNotify
    \/ HbExit

SpecProg == ProgInit /\ [][ProgNext]_vars

\* ------------------------------------------------- the backup operation
\* MessageBackupHandler.Handle from newBackupProgress on.  Its FetchAll is
\* seen through the onBatch calls it makes: call n carries the number of
\* messages collected so far, which only grows and stops at MaxCount, and
\* the earliest timestamp of page n (zero for an empty page).
BackupCounts == {0, 2}
BackupAppends == 0..2

\* "Default to 1000 messages if no filters specified"
backupCount(count, fromStr, toStr) ==
    IF count = 0 /\ ~fromStr.given /\ ~toStr.given THEN defaultBackupCount
    ELSE count

\* A "from" / "to" argument: the empty string, or a date string with the
\* time parseDate reads from it ("0001-01-01" in UTC is the zero time).
NoDateStr == [given |-> FALSE, date |-> ZeroTime]
DateStr(t) == [given |-> TRUE, date |-> t]
parseDate(str) == IF ~str.given THEN ZeroTime ELSE str.date
BackupFroms == {IF IsZero(t) THEN NoDateStr ELSE DateStr(t) : t \in ProgFroms}
                  \cup {DateStr(ZeroTime)}
BackupTos == {IF IsZero(t) THEN NoDateStr ELSE DateStr(t) : t \in ProgTos}
                \cup {DateStr(ZeroTime)}

BackupInit ==
    /\ FetchIdle
    /\ WaitIdle
    /\ LimIdle
    /\ SplitIdle
    /\ ExtIdle
    /\ SumIdle
    /\ GetIdle
    /\ progMain = "start"
    /\ \E srv \in BOOLEAN, fromStr \in BackupFroms, toStr \in BackupTos,
          n \in ProgNows, c \in BackupCounts :
         LET f == parseDate(fromStr)
             t == parseDate(toStr)
             count == backupCount(c, fromStr, toStr)
         IN /\ bp = newBackupProgress(srv, f, t, n, count)
            /\ bpArgs = [from |-> f, to |-> t, now |-> n, countLimit |-> count]
    /\ bpState = progressStateCreated
    /\ earliestMsgTime = ZeroTime
    /\ messageCount = 0
    /\ lastMsg = EmptyMsg
    /\ ticker = "nil"
    /\ done = FALSE
    /\ startPending = 0
    /\ hbLaunched = 0
    /\ hbPc = "none"
    /\ hbMsg = EmptyMsg
    /\ hbSnap = NoSnap
    /\ ticks = 0
    /\ sent = <<>>
    /\ panicked = ""
    /\ startCalls = 0
    /\ stopCalls = 0
    /\ observed = {}
    /\ mainSnap = NoSnap
    /\ bkBatch = 0
    /\ bkCollected = 0
    /\ bkCall = NoCall

\* progress.Start()
BkStart ==
    /\ progMain = "start"
    /\ StartCAS
    /\ progMain' = "launch"
    /\ UNCHANGED <<bkBatch, bkCollected, bkCall>>
BkLaunch ==
    /\ progMain = "launch"
    /\ StartLaunch
    /\ progMain' = "fetch"
    /\ UNCHANGED <<bkBatch, bkCollected, bkCall>>

\* FetchAll handles one more page and calls onBatch: appended messages are
\* added to the collected ones, up to MaxCount.
BkPage ==
    /\ progMain = "fetch"
    /\ panicked = ""
    /\ bkBatch < MaxBackupPages
    /\ \E k \in BackupAppends, t \in ProgStamps \cup {ZeroTime}, more \in BOOLEAN :
         LET maxCount == bp.countLimit
             n == IF maxCount > 0 /\ bkCollected + k > maxCount
                  THEN maxCount ELSE bkCollected + k
             last == \/ IsZero(t)
                     \/ (maxCount > 0 /\ n >= maxCount)
                     \/ ~more
         IN /\ IsZero(t) => k = 0
            /\ bkBatch' = bkBatch + 1
            /\ bkCollected' = n
            /\ bkCall' = [batch |-> bkBatch + 1, collected |-> n, earliest |-> t,
                          last |-> last]
    /\ progMain' = "cbMessage"
    /\ UNCHANGED <<bp, bpArgs, bpState, earliestMsgTime, messageCount, lastMsg,
                   ticker, done, startPending, hbLaunched, hbPc, hbMsg, hbSnap,
                   ticks, sent, panicked, startCalls, stopCalls, observed,
                   mainSnap, notProg>>

\* The onBatch closure, statement by statement.
BkSetMessage ==
    /\ progMain = "cbMessage"
    /\ SetMessage(fetchingMsg(bkCall.batch, bkCall.collected))
    /\ progMain' = "cbCount"
    /\ UNCHANGED <<bkBatch, bkCollected, bkCall>>
BkSetMessageCount ==
    /\ progMain = "cbCount"
    /\ SetMessageCount(bkCall.collected)
    /\ progMain' = IF ~IsZero(bkCall.earliest) THEN "cbEarliest"
                   ELSE IF bkCall.last THEN "send" ELSE "fetch"
    /\ UNCHANGED <<bkBatch, bkCollected, bkCall>>
BkUpdateEarliestTime ==
    /\ progMain = "cbEarliest"
    /\ UpdateEarliestTime(bkCall.earliest)
    /\ progMain' = IF bkCall.last THEN "send" ELSE "fetch"
    /\ UNCHANGED <<bkBatch, bkCollected, bkCall>>

\* FetchAll returns an error: Handle returns, the deferred Stop runs next.
BkFetchFail ==
    /\ progMain = "fetch"
    /\ panicked = ""
    /\ progMain' = "stop"
    /\ UNCHANGED <<bp, bpArgs, bpState, earliestMsgTime, messageCount, lastMsg,
                   ticker, done, startPending, hbLaunched, hbPc, hbMsg, hbSnap,
                   ticks, sent, panicked, startCalls, stopCalls, observed,
                   mainSnap, bkBatch, bkCollected, bkCall, notProg>>

\* progress.Send("Collected %d messages"): nothing without a server, else
\* getProgress under the mutex.
BkSendGetProgress ==
    /\ progMain = "send"
    /\ panicked = ""
    /\ IF bp.srv
       THEN /\ mainSnap' = getProgress(bp, earliestMsgTime, messageCount)
            /\ progMain' = "notify"
       ELSE /\ mainSnap' = mainSnap
            /\ progMain' = "stop"
    /\ UNCHANGED <<bp, bpArgs, bpState, earliestMsgTime, messageCount, lastMsg,
                   ticker, done, startPending, hbLaunched, hbPc, hbMsg, hbSnap,
                   ticks, sent, panicked, startCalls, stopCalls, observed,
                   bkBatch, bkCollected, bkCall, notProg>>

\* progress.Send, the rest: the notification is handed to the server.
BkSendNotify ==
    /\ progMain = "notify"
    /\ panicked = ""
    /\ sent' = Append(sent, Notification(mainSnap, collectedMsg(bkCollected),
                                         "operation"))
    /\ progMain' = "stop"
    /\ UNCHANGED <<bp, bpArgs, bpState, earliestMsgTime, messageCount, lastMsg,
                   ticker, done, startPending, hbLaunched, hbPc, hbMsg, hbSnap,
                   ticks, panicked, startCalls, stopCalls, observed, mainSnap,
                   bkBatch, bkCollected, bkCall, notProg>>

\* defer progress.Stop()
BkStop ==
    /\ progMain = "stop"
    /\ Stop
    /\ progMain' = "done"
    /\ UNCHANGED <<bkBatch, bkCollected, bkCall>>

BackupNext ==
    \/ BkStart
    \/ BkLaunch
    \/ BkPage
    \/ BkSetMessage
    \/ BkSetMessageCount
    \/ BkUpdateEarliestTime
    \/ BkFetchFail
    \/ BkSendGetProgress
    \/ BkSendNotify
    \/ BkStop
    \/ HbTick
    \/ HbReadMsg
    \/ HbGetProgress
    \/ HbNotify
    \/ HbExit

SpecBackup == BackupInit /\ [][BackupNext]_vars

\* ================================================= entity text extraction
\* UTF-16 code units a code point occupies.
unitWidth_AlwaysOne(r) == 1
unitWidth(r) == IF r > 65535 THEN 2 ELSE 1

\* The argument check made before the string is looked at.
rejectsArgs_ZeroLengthAllowed(offset, length) == offset < 0 \/ length < 0
rejectsArgs(offset, length) == offset < 0 \/ length <= 0

\* The scan over runes, from 0-based index i with pos code units consumed;
\* start and stop are rune indexes, -1 while not found.
RECURSIVE scanRunes(_, _, _, _, _, _)
scanRunes(runes, i, pos, start, offset, end) ==
    IF i >= Len(runes) THEN [start |-> start, stop |-> 0 - 1]
    ELSE LET start2 == IF pos >= offset /\ start < 0 THEN i ELSE start
             pos2 == pos + unitWidth(runes[i + 1])
         IN IF pos2 >= end THEN [start |-> start2, stop |-> i + 1]
            ELSE scanRunes(runes, i + 1, pos2, start2, offset, end)

\* runes[start:stop]; a slice with start > stop or stop > len panics.
sliceRunes(runes, start, stop) ==
    IF start > stop \/ stop > Len(runes)
    THEN [failed |-> TRUE, value |-> <<>>]
    ELSE [failed |-> FALSE, value |-> SubSeq(runes, start + 1, stop)]

extractSubstring(s, offset, length) ==
    IF rejectsArgs(offset, length) THEN [failed |-> FALSE, value |-> <<>>]
    ELSE LET found == scanRunes(s, 0, 0, 0 - 1, offset, offset + length)
         IN IF found.start < 0 \/ found.stop < 0
            THEN [failed |-> FALSE, value |-> <<>>]
            ELSE sliceRunes(s, found.start, found.stop)

\* Inputs: "A", the last code point of the basic plane, the first code point
\* above it, and an emoji.
ExtRunes == {65, 65535, 65536, 128075}
ExtTexts == SeqsOfLen(ExtRunes, 0..MaxExtLen)
ExtOffsets == (0 - 1)..(2 * MaxExtLen + 1)
ExtLengths == (0 - 1)..(2 * MaxExtLen + 1)

ExtInit ==
    /\ FetchIdle
    /\ WaitIdle
    /\ LimIdle
    /\ SplitIdle
    /\ ProgIdle
    /\ SumIdle
    /\ GetIdle
    /\ extPc = "input"
    /\ extText \in ExtTexts
    /\ extOffset \in ExtOffsets
    /\ extLength \in ExtLengths
    /\ extOut = <<>>

\* extractSubstring(extText, extOffset, extLength) is called and returns.
ExtApply ==
    /\ extPc = "input"
    /\ extOut' = extractSubstring(extText, extOffset, extLength)
    /\ extPc' = "done"
    /\ UNCHANGED <<extText, extOffset, extLength, notExt>>

ExtNext == ExtApply

SpecExtract == ExtInit /\ [][ExtNext]_vars

\* ------------------------------------------------ summarizeWithProgress
\* One call: the Provider goroutine, the ticker, the context and the waiting
\* select loop. A select that finds several cases ready takes any of them;
\* a goroutine blocked in the select is resumed by the first event, with
\* that event's case.
WaitResults ==
    {[summary |-> <<115>>, err |-> FALSE], [summary |-> <<>>, err |-> TRUE]}

WaitInit ==
    /\ FetchIdle
    /\ SplitIdle
    /\ ExtIdle
    /\ ProgIdle
    /\ SumIdle
    /\ GetIdle
    /\ LimIdle
    /\ wPc = "start"
    /\ wOnProgress \in BOOLEAN
    /\ gPc = "none"
    /\ gResult = NoWaitResult
    /\ resultCh = <<>>
    /\ wCtxDone = FALSE
    /\ wTicker = "nil"
    /\ wTickPending = FALSE
    /\ wTicks = 0
    /\ wElapsed = 0
    /\ wProgress = <<>>
    /\ wRet = NoWaitReturn
    /\ wEvents = <<>>

notWait == <<fetchVars, splitVars, extVars, progVars, sumVars, getVars, limVars>>

\* case res := <-resultCh: return res.summary, res.err
resultReturn(res) ==
    WaitReturn(res.summary, IF res.err THEN "provider" ELSE "nil")
\* case <-ctx.Done()
canceledReturn == WaitReturn(<<>>, "summarization canceled")

\* A send on resultCh goes through when the buffer has room or a receiver
\* is blocked on the channel.
canSend_Unbuffered(n, receiverParked) == receiverParked
canSend(n, receiverParked) == receiverParked \/ n < resultChCap

\* make(chan result, 1), go func, time.NewTicker.
WStart ==
    /\ wPc = "start"
    /\ gPc' = "calling"
    /\ wTicker' = "running"
    /\ wPc' = "busy"
    /\ UNCHANGED <<wOnProgress, gResult, resultCh, wCtxDone, wTickPending, wTicks,
                   wElapsed, wProgress, wRet, wEvents, notWait>>

\* provider.Summarize returns in the goroutine.
ProviderReturns ==
    /\ gPc = "calling"
    /\ gResult' \in WaitResults
    /\ gPc' = "sending"
    /\ UNCHANGED <<wPc, wOnProgress, resultCh, wCtxDone, wTicker, wTickPending,
                   wTicks, wElapsed, wProgress, wRet, wEvents, notWait>>

\* resultCh <- result{...}; the goroutine ends.
GoSend ==
    /\ gPc = "sending"
    /\ canSend(Len(resultCh), wPc = "parked")
    /\ gPc' = "exited"
    /\ wEvents' = Append(wEvents, "delivered")
    /\ IF wPc = "parked"
       THEN /\ wRet' = resultReturn(gResult)
            /\ wPc' = "returned"
            /\ wTicker' = "stopped"
            /\ UNCHANGED resultCh
       ELSE /\ resultCh' = Append(resultCh, gResult)
            /\ UNCHANGED <<wRet, wPc, wTicker>>
    /\ UNCHANGED <<wOnProgress, gResult, wCtxDone, wTickPending, wTicks, wElapsed,
                   wProgress, notWait>>

\* The caller's context is cancelled or its deadline passes.
CtxCancel ==
    /\ wPc # "idle"
    /\ ~wCtxDone
    /\ wCtxDone' = TRUE
    /\ wEvents' = Append(wEvents, "canceled")
    /\ IF wPc = "parked"
       THEN /\ wRet' = canceledReturn
            /\ wPc' = "returned"
            /\ wTicker' = "stopped"
       ELSE UNCHANGED <<wRet, wPc, wTicker>>
    /\ UNCHANGED <<wOnProgress, gPc, gResult, resultCh, wTickPending, wTicks,
                   wElapsed, wProgress, notWait>>

\* The ticker fires.
WTickFires ==
    /\ wTicker = "running"
    /\ ~wTickPending
    /\ wTicks < MaxWaitTicks
    /\ wTicks' = wTicks + 1
    /\ IF wPc = "parked"
       THEN wPc' = "tick" /\ UNCHANGED wTickPending
       ELSE wTickPending' = TRUE /\ UNCHANGED wPc
    /\ UNCHANGED <<wOnProgress, gPc, gResult, resultCh, wCtxDone, wTicker,
                   wElapsed, wProgress, wRet, wEvents, notWait>>

\* The cases of the select that are ready when the loop reaches it.
readyCases(ch, tickPending, ctxDone) ==
    (IF ch # <<>> THEN {"result"} ELSE {})
        \cup (IF tickPending THEN {"tick"} ELSE {})
        \cup (IF ctxDone THEN {"canceled"} ELSE {})

\* The loop reaches the select: it takes a ready case or blocks.
WSelect ==
    /\ wPc = "busy"
    /\ LET ready == readyCases(resultCh, wTickPending, wCtxDone)
       IN IF ready = {}
          THEN /\ wPc' = "parked"
               /\ UNCHANGED <<resultCh, wTickPending, wRet, wTicker>>
          ELSE \E c \in ready :
                 /\ wPc' = IF c = "tick" THEN "tick" ELSE "returned"
                 /\ resultCh' = IF c = "result" THEN Tail(resultCh) ELSE resultCh
                 /\ wTickPending' = IF c = "tick" THEN FALSE ELSE wTickPending
                 /\ wRet' = IF c = "result" THEN resultReturn(Head(resultCh))
                            ELSE IF c = "canceled" THEN canceledReturn
                            ELSE wRet
                 /\ wTicker' = IF c = "tick" THEN wTicker ELSE "stopped"
    /\ UNCHANGED <<wOnProgress, gPc, gResult, wCtxDone, wTicks, wElapsed,
                   wProgress, wEvents, notWait>>

\* case <-ticker.C: elapsed grows and onProgress is called.
WTick ==
    /\ wPc = "tick"
    /\ wElapsed' = wElapsed + progressIntervalSeconds
    /\ wProgress' = wProgress \o progressCall(wOnProgress, 1, 1, wElapsed')
    /\ wPc' = "busy"
    /\ UNCHANGED <<wOnProgress, gPc, gResult, resultCh, wCtxDone, wTicker,
                   wTickPending, wTicks, wRet, wEvents, notWait>>

WaitNext ==
    \/ WStart
    \/ ProviderReturns
    \/ GoSend
    \/ CtxCancel
    \/ WTickFires
    \/ WSelect
    \/ WTick

SpecWait == WaitInit /\ [][WaitNext]_vars

\* The auxiliary goroutines: one summarizeWithProgress call or one backup
\* run; every goroutine that can take a step eventually takes it.
AuxInit ==
    \/ WaitInit
    \/ (BackupInit /\ bp.srv /\ bp.countLimit = 2 /\ IsZero(bpArgs.to))
AuxNext == WaitNext \/ BackupNext
SpecAux ==
    /\ AuxInit
    /\ [][AuxNext]_vars
    /\ WF_vars(GoSend)
    /\ WF_vars(HbReadMsg)
    /\ WF_vars(HbGetProgress)
    /\ WF_vars(HbNotify)
    /\ WF_vars(HbExit)

\* ------------------------------------------------ the shared rate limiter
\* Operations that page through the one messages.Provider the server
\* creates, each in its own request goroutine.
\* limiter.Take(): the next token of the limiter.
limiterTake_Same(n) == n
limiterTake(n) == n + 1

LimInit ==
    /\ FetchIdle
    /\ SplitIdle
    /\ ExtIdle
    /\ ProgIdle
    /\ SumIdle
    /\ GetIdle
    /\ WaitIdle
    /\ limPc = [p \in LimOps |-> "begin"]
    /\ limUnread \in [LimOps -> BOOLEAN]
    /\ limPages = [p \in LimOps |-> 0]
    /\ limHeld = [p \in LimOps |-> 0]
    /\ limiterTaken = 0
    /\ wire = <<>>

notLim == <<fetchVars, splitVars, extVars, progVars, sumVars, getVars, waitVars>>

Sent(p, method, token) == [op |-> p, method |-> method, token |-> token]

\* fetchWithPeer up to the limiter: with UnreadOnly the read marker is
\* asked for first (getReadInboxMaxID); when that request fails
\* fetchWithPeer returns the error without taking a token.
LimPrepare(p) ==
    /\ limPc[p] = "begin"
    /\ IF limUnread[p]
       THEN /\ wire' = Append(wire, Sent(p, "MessagesGetPeerDialogs", 0))
            /\ \E ok \in BOOLEAN :
                 limPc' = [limPc EXCEPT ![p] = IF ok THEN "take" ELSE "done"]
       ELSE /\ wire' = wire
            /\ limPc' = [limPc EXCEPT ![p] = "take"]
    /\ UNCHANGED <<limUnread, limPages, limHeld, limiterTaken, notLim>>

\* p.limiter.Take()
LimTake(p) ==
    /\ limPc[p] = "take"
    /\ limiterTaken' = limiterTake(limiterTaken)
    /\ limHeld' = [limHeld EXCEPT ![p] = limiterTaken']
    /\ limPc' = [limPc EXCEPT ![p] = "send"]
    /\ UNCHANGED <<limUnread, limPages, wire, notLim>>

\* p.client.MessagesGetHistory; FetchAll, whose page options never carry
\* UnreadOnly, may go on to a further page.
LimSend(p) ==
    /\ limPc[p] = "send"
    /\ wire' = Append(wire, Sent(p, "MessagesGetHistory", limHeld[p]))
    /\ limPages' = [limPages EXCEPT ![p] = limPages[p] + 1]
    /\ \E more \in BOOLEAN :
         limPc' = [limPc EXCEPT ![p] =
                     IF more /\ ~limUnread[p] /\ limPages[p] + 1 < MaxLimPages
                     THEN "begin" ELSE "done"]
    /\ UNCHANGED <<limUnread, limHeld, limiterTaken, notLim>>

LimNext ==
    \E p \in LimOps :
        \/ LimPrepare(p)
        \/ LimTake(p)
        \/ LimSend(p)

SpecLimiter == LimInit /\ [][LimNext]_vars

\* ================================================================ claims
RECURSIVE Flatten(_)
Flatten(ss) == IF ss = <<>> THEN <<>> ELSE Head(ss) \o Flatten(Tail(ss))

\* The messages of the pages received so far, in arrival order.
PageMessages == Flatten([k \in 1..Len(pages) |-> pages[k].Messages])

AllAtOrAfter(msgs, d) == \A i \in 1..Len(msgs) : msgs[i].Date >= d

\* A page already received holds a message strictly older than MinDate.
SeenOlderThanMinDate ==
    /\ ~IsZero(opts.MinDate)
    /\ \E k \in 1..Len(pages) : \E i \in 1..Len(pages[k].Messages) :
          pages[k].Messages[i].Date < opts.MinDate

\* C1: with MinDate set to D, every message of the result (while it is
\* accumulated and when it is returned) has a timestamp at or after D.
C1_NoMessageOlderThanMinDate ==
    ~IsZero(opts.MinDate) =>
        /\ AllAtOrAfter(result.Messages, opts.MinDate)
        /\ inner.result # Nil => AllAtOrAfter(inner.result[1].Messages, opts.MinDate)
        /\ ret.result # Nil => AllAtOrAfter(ret.result[1].Messages, opts.MinDate)

\* A call that met an older message on its second page, behind a newer one,
\* and returned the messages collected before it.
C1_Witness ==
    /\ SeenOlderThanMinDate
    /\ Len(pages) = 2
    /\ Len(pages[2].Messages) = 2
    /\ pages[2].Messages[1].Date >= opts.MinDate
    /\ pages[2].Messages[2].Date < opts.MinDate
    /\ ret.result # Nil
    /\ Len(ret.result[1].Messages) >= 2

\* C2: once a received page holds a message strictly older than MinDate, no
\* further page request is issued.
C2_NoRequestAfterOlderMessage ==
    [][SeenOlderThanMinDate => requests' = requests]_vars

\* The first page held an older message although the platform announced more
\* pages, and the call ended after that single request.
C2_Witness ==
    /\ SeenOlderThanMinDate
    /\ pc = "done"
    /\ Len(requests) = 1
    /\ pages[1].HasMore
    /\ ret.err = NoErr

\* C3: with MaxCount = N > 0 the result never holds more than N messages; once
\* it holds N the call has returned exactly the first N collected messages and
\* no further page is requested.
C3_MaxCountTruncates ==
    opts.MaxCount > 0 =>
        /\ Len(result.Messages) <= opts.MaxCount
        /\ Len(result.Messages) >= opts.MaxCount =>
              /\ pc = "done"
              /\ Len(requests) = Len(pages)
              /\ ret.result # Nil
              /\ ret.result[1].Messages = result.Messages
              /\ ret.result[1].Count = opts.MaxCount
              /\ result.Messages = SubSeq(PageMessages, 1, opts.MaxCount)

\* MaxCount was reached in the middle of the second page.
C3_Witness ==
    /\ opts.MaxCount = 3
    /\ Len(pages) = 2
    /\ Len(pages[1].Messages) = 2
    /\ Len(pages[2].Messages) = 2
    /\ pc = "done"
    /\ ret.result # Nil
    /\ Len(ret.result[1].Messages) = 3

\* C4: on cancellation seen at the top of an iteration the caller of FetchAll
\* receives the cancellation error together with the partial result.
C4_CancelReturnsPartialResult ==
    (ret.returned /\ ret.err = ErrContextCanceled) =>
        /\ ret.result # Nil
        /\ ret.result[1].Messages = result.Messages

\* C5 as stated: a page fetch failing after earlier pages succeeded returns
\* the error alongside the messages already collected.
C5_FailureReturnsCollected ==
    (ret.returned /\ ret.err.kind = "fetching batch" /\ Len(pages) >= 1) =>
        /\ ret.result # Nil
        /\ ret.result[1].Messages = result.Messages

\* C5 amended: a page fetch failing after any number of successful pages makes
\* fetchAllWithPeer and FetchAll return the error, naming the failed page, and
\* no result at all: the messages of the earlier pages are not returned.
C5_FailureReturnsNoResult ==
    (ret.returned /\ ret.err.kind = "fetching batch") =>
        /\ ret.result = Nil
        /\ inner.result = Nil
        /\ inner.err = ret.err
        /\ ret.err.batch = Len(pages) + 1
        /\ Len(requests) = Len(pages) + 1

\* The second page fetch failed after the first page had contributed messages.
C5_Witness ==
    /\ ret.returned
    /\ ret.err = ErrFetchingBatch(2)
    /\ Len(pages) = 1
    /\ Len(result.Messages) >= 1

\* C6: a supplied onBatch is invoked exactly once per successfully fetched
\* page, with page numbers 1, 2, 3, ... and the number of messages collected
\* at that moment, which never decreases.
C6_OnBatchOncePerPage ==
    onBatch =>
        /\ Len(callbacks) = Len(pages)
        /\ \A i \in 1..Len(callbacks) : callbacks[i].batch = i
        /\ \A i \in 1..(Len(callbacks) - 1) :
              callbacks[i].collected <= callbacks[i + 1].collected
        /\ callbacks # <<>> =>
              callbacks[Len(callbacks)].collected = Len(result.Messages)

\* Two callbacks, the second for the empty final page.
C6_Witness ==
    /\ onBatch
    /\ Len(pages) = 2
    /\ pages[2].Messages = <<>>
    /\ Len(callbacks) = 2
    /\ callbacks[1].collected = 2
    /\ pc = "done"

\* Estimated cost of one message and of a batch, as the planner counts them.
MsgCost(m) == estimateTokens(FormatForSummary(m))
RECURSIVE BatchCost(_)
BatchCost(b) == IF b = <<>> THEN 0 ELSE MsgCost(Head(b)) + BatchCost(Tail(b))

SplitDone == splitPc = "done"

\* C7: for a non-empty list and any maxTokens every batch is non-empty and the
\* batches concatenated in order are exactly the input list.
C7_BatchesPartitionInput ==
    (SplitDone /\ splitMsgs # <<>>) =>
        /\ \A k \in 1..Len(splitOut) : splitOut[k] # <<>>
        /\ Flatten(splitOut) = splitMsgs

\* Three messages split into a batch of two followed by a batch of one.
C7_Witness ==
    /\ SplitDone
    /\ Len(splitMsgs) = 3
    /\ Len(splitOut) = 2
    /\ Len(splitOut[1]) = 2

\* C8: a batch of two or more messages costs at most maxTokens; a batch that
\* costs more than maxTokens holds exactly one message.
C8_OnlySingletonsExceedBudget ==
    SplitDone =>
        \A k \in 1..Len(splitOut) :
            /\ Len(splitOut[k]) >= 2 => BatchCost(splitOut[k]) <= splitMax
            /\ BatchCost(splitOut[k]) > splitMax => Len(splitOut[k]) = 1

\* A full batch of two messages next to an oversized message on its own.
C8_Witness ==
    /\ SplitDone
    /\ splitMax > 0
    /\ \E k \in 1..Len(splitOut) :
          Len(splitOut[k]) = 2 /\ BatchCost(splitOut[k]) = splitMax
    /\ \E k \in 1..Len(splitOut) :
          Len(splitOut[k]) = 1 /\ BatchCost(splitOut[k]) > splitMax

AllCostExactly(msgs, n) == \A i \in 1..Len(msgs) : MsgCost(msgs[i]) = n

\* C9: N messages each estimated at exactly maxTokens give N batches of one
\* message each, in order.
C9_ExactCostGivesSingletons ==
    (SplitDone /\ AllCostExactly(splitMsgs, splitMax)) =>
        /\ Len(splitOut) = Len(splitMsgs)
        /\ \A k \in 1..Len(splitOut) : splitOut[k] = <<splitMsgs[k]>>

\* Three messages of exactly maxTokens each were split.
C9_Witness ==
    /\ SplitDone
    /\ Len(splitMsgs) = 3
    /\ AllCostExactly(splitMsgs, splitMax)
    /\ Len(splitOut) = 3

\* C10: a non-empty list whose total estimated cost is at most maxTokens gives
\* exactly one batch holding all the messages.
C10_WithinBudgetGivesOneBatch ==
    (SplitDone /\ splitMsgs # <<>> /\ BatchCost(splitMsgs) <= splitMax) =>
        splitOut = <<splitMsgs>>

\* Three messages whose total is exactly maxTokens came out as one batch.
C10_Witness ==
    /\ SplitDone
    /\ Len(splitMsgs) = 3
    /\ BatchCost(splitMsgs) = splitMax
    /\ Len(splitOut) = 1

\* ---------------------------------------------------- C11, C12 and C13
SumFetchedOk == sumFetched # <<>> /\ sumFetched.err = NoErr
SumFetchedMessages == sumFetched.result[1].Messages

\* C11: when the fetch yields no messages, Summarize returns the literal
\* "No messages found in the specified period." with no error, and no
\* Provider call is made in that run.
C11_EmptyFetchReturnsLiteral ==
    (SumFetchedOk /\ SumFetchedMessages = <<>>) =>
        /\ sumRet.returned
        /\ sumRet.summary =
             <<78, 111, 32, 109, 101, 115, 115, 97, 103, 101, 115, 32, 102, 111,
               117, 110, 100, 32, 105, 110, 32, 116, 104, 101, 32, 115, 112, 101,
               99, 105, 102, 105, 101, 100, 32, 112, 101, 114, 105, 111, 100, 46>>
        /\ sumRet.err = NoSumErr
        /\ provCalls = <<>>

\* The chat has messages in its pages, all older than since: nothing fetched.
C11_Witness ==
    /\ sumPc = "done"
    /\ SumFetchedOk /\ SumFetchedMessages = <<>>
    /\ sumSince = 2
    /\ sumRet.summary = NoMessagesFound

AllTextEmpty(msgs) == \A i \in 1..Len(msgs) : msgs[i].Text = <<>>

\* C12: when the fetched window is not empty and no message in it has text,
\* Summarize returns "No text messages found in the specified period."
\* with no error, and no Provider call is made.
C12_NoTextReturnsLiteral ==
    (SumFetchedOk /\ SumFetchedMessages # <<>> /\ AllTextEmpty(SumFetchedMessages)) =>
        /\ sumRet.returned
        /\ sumRet.summary =
             <<78, 111, 32, 116, 101, 120, 116, 32, 109, 101, 115, 115, 97, 103,
               101, 115, 32, 102, 111, 117, 110, 100, 32, 105, 110, 32, 116, 104,
               101, 32, 115, 112, 101, 99, 105, 102, 105, 101, 100, 32, 112, 101,
               114, 105, 111, 100, 46>>
        /\ sumRet.err = NoSumErr
        /\ provCalls = <<>>

\* Three media-only messages were fetched.
C12_Witness ==
    /\ sumPc = "done"
    /\ SumFetchedOk
    /\ Len(SumFetchedMessages) = 3 /\ AllTextEmpty(SumFetchedMessages)
    /\ sumRet.summary = NoTextMessagesFound
    /\ provCalls = <<>>

ProviderFailed ==
    sumRet.returned /\ sumRet.err.kind = "summarizing batch"
                    /\ sumRet.err.cause = "provider"

\* C13: when the Provider call for batch k fails, that call is the last one
\* made (calls are made for batches 1, 2, ... in order), the error names
\* batch k and the summary returned is empty.
C13_ProviderFailureAborts ==
    /\ \A j \in 1..Len(provCalls) : provCalls[j].batch = j
    /\ ProviderFailed =>
         /\ sumRet.err.batch = Len(provCalls)
         /\ sumRet.summary = <<>>
         /\ sumPc = "done"

\* The call for batch 2 of 3 failed after batch 1 had produced a summary.
C13_Witness ==
    /\ ProviderFailed
    /\ sumRet.err.batch = 2
    /\ Len(sumBatches) = 3
    /\ runningSummary # <<>>
    /\ Len(provCalls) = 2

\* ---------------------------------------------------------- C17 and C18
\* UTF-16 code units of a string.
RECURSIVE utf16Len(_)
utf16Len(s) ==
    IF s = <<>> THEN 0
    ELSE utf16Len(Tail(s)) + (IF Head(s) > 65535 THEN 2 ELSE 1)

\* Code units that precede the (k+1)-th code point of s.
unitsBefore(s, k) == utf16Len(SubSeq(s, 1, k))

\* The code unit position lies between two code points of s (or at an end).
OnBoundary(s, u) == \E k \in 0..Len(s) : unitsBefore(s, k) = u

\* The code points of s that occupy code units [from, to).
RunesInUnits(s, from, to) ==
    LET a == CHOOSE k \in 0..Len(s) : unitsBefore(s, k) = from
        b == CHOOSE k \in 0..Len(s) : unitsBefore(s, k) = to
    IN SubSeq(s, a + 1, b)

ExtDone == extPc = "done"
ExtAligned ==
    /\ extOffset >= 0
    /\ extLength > 0
    /\ extOffset + extLength <= utf16Len(extText)
    /\ OnBoundary(extText, extOffset)
    /\ OnBoundary(extText, extOffset + extLength)

\* C17: for an aligned request inside the string, extractSubstring returns
\* exactly the code points occupying code units [offset, offset+length),
\* a code point above U+FFFF counting as 2 units and any other as 1.
C17_ExtractsAlignedRange ==
    (ExtDone /\ ExtAligned) =>
        /\ ~extOut.failed
        /\ extOut.value = RunesInUnits(extText, extOffset, extOffset + extLength)

\* An emoji after a basic-plane code point is extracted alone, at offset 1
\* and length 2, from a string that goes on after it.
C17_Witness ==
    /\ ExtDone /\ ExtAligned
    /\ extText = <<65535, 128075, 65>>
    /\ extOffset = 1 /\ extLength = 2
    /\ extOut.value = <<128075>>

ExtOutOfRange ==
    \/ extOffset < 0
    \/ extLength <= 0
    \/ extOffset + extLength > utf16Len(extText)

\* C18: extractSubstring returns the empty string, without failing, when
\* offset < 0, length <= 0 or offset+length lies beyond the UTF-16 length
\* of the string (any request on the empty string included).
C18_OutOfRangeGivesEmpty ==
    (ExtDone /\ ExtOutOfRange) => (~extOut.failed /\ extOut.value = <<>>)

\* A request that starts inside the string and ends one unit beyond it.
C18_Witness ==
    /\ ExtDone
    /\ extText = <<65, 128075>>
    /\ extOffset = 1 /\ extLength = 3
    /\ extOut.value = <<>>

\* ------------------------------------------------------ C14, C16 and C19
currentProgress == getProgress(bp, earliestMsgTime, messageCount)

InPercentRange(p) == 0 <= p.num /\ p.num <= 100 * p.den /\ p.den > 0

\* C14: in every reachable state of a progress estimator (either mode, any
\* calls of SetMessageCount and UpdateEarliestTime, any date range, an end
\* before the start included) getProgress returns a percentage within
\* [0,100] and a total of 100; so does every notification it has sent.
C14_ProgressWithinBounds ==
    /\ InPercentRange(currentProgress.progress)
    /\ currentProgress.total = 100
    /\ \A i \in 1..Len(sent) :
         InPercentRange(sent[i].progress) /\ sent[i].total = 100

\* The date range ends before it starts, a message older than the end has
\* been observed, and the reported percentage is 100.
C14_Witness ==
    /\ progMain = "free"
    /\ ~IsZero(bpArgs.to) /\ Before(bpArgs.to, bpArgs.from)
    /\ earliestMsgTime = telegramLaunchDate + 4
    /\ messageCount = 3
    /\ currentProgress.progress = Rat(100, 1)

\* C16: the state only moves created -> running -> stopped; a Start call
\* on an estimator that is not created and a Stop call on one that is not
\* running panic and change nothing; no second heartbeat is ever launched.
C16_LifecycleStep ==
    /\ startCalls' # startCalls =>
         IF bpState = progressStateCreated
         THEN bpState' = progressStateRunning /\ panicked' = ""
         ELSE /\ panicked' = "backupProgress already started"
              /\ bpState' = bpState /\ hbLaunched' = hbLaunched
    /\ stopCalls' # stopCalls =>
         IF bpState = progressStateRunning
         THEN bpState' = progressStateStopped /\ panicked' = ""
         ELSE /\ panicked' = "backupProgress is not running"
              /\ bpState' = bpState /\ done' = done
    /\ bpState' # bpState =>
         \/ bpState = progressStateCreated /\ bpState' = progressStateRunning
         \/ bpState = progressStateRunning /\ bpState' = progressStateStopped
    /\ hbLaunched' <= 1
C16_LifecycleOnlyForward == [][C16_LifecycleStep]_vars

\* A second Start call was made while the first one had not yet launched
\* the heartbeat: it panicked.
C16_Witness ==
    /\ progMain = "free"
    /\ startCalls = 2
    /\ startPending = 1
    /\ hbLaunched = 0
    /\ panicked = "backupProgress already started"

SetMin(S) == CHOOSE x \in S : \A y \in S : x <= y

\* The percentage p equals x/y*100 clamped to [0,100], for y > 0.
IsClampedShare(p, x, y) ==
    IF x <= 0 THEN p = Rat(0, 1)
    ELSE IF x >= y THEN p = Rat(100, 1)
    ELSE p.num * y = x * 100 * p.den

\* C19: date-coverage mode exactly when a from or to date is given and the
\* count limit is 0; in it getProgress is 0 until a timestamp has been
\* observed, then (end - earliest observed) / total span * 100 clamped to
\* [0,100], the span being floored at 1 second; in the other mode with a
\* count limit > 0 it is collected/limit*100 clamped to 100.
C19_ModeAndFormula ==
    progMain = "free" =>
    LET a == bpArgs
        endT == IF a.to # ZeroTime THEN a.to ELSE a.now
        startT == IF a.from # ZeroTime THEN a.from ELSE telegramLaunchDate
        span == IF endT - startT < 1 THEN 1 ELSE endT - startT
        p == currentProgress.progress
    IN /\ bp.useDateProgress <=>
            ((a.from # ZeroTime \/ a.to # ZeroTime) /\ a.countLimit = 0)
       /\ bp.useDateProgress =>
            IF observed = {} THEN p = Rat(0, 1)
            ELSE IsClampedShare(p, endT - SetMin(observed), span)
       /\ (~bp.useDateProgress /\ a.countLimit > 0) =>
            IsClampedShare(p, messageCount, a.countLimit)

\* Date mode, two timestamps observed, a percentage strictly inside (0,100).
C19_Witness ==
    /\ progMain = "free"
    /\ bp.useDateProgress
    /\ observed = {telegramLaunchDate + 13, telegramLaunchDate + 15}
    /\ currentProgress.progress = Rat(25, 1)

\* ------------------------------------------------------------------ C15
\* C15, as stated: within one backup run the percentages of successive
\* progress notifications never decrease, heartbeat notifications and the
\* final notification of the operation included.
C15_NotificationsNeverDecrease ==
    progMain \notin {"idle", "free"} =>
        \A i \in 1..Len(sent) : \A j \in i..Len(sent) :
            RatLeq(sent[i].progress, sent[j].progress)

\* ------------------------------------------------------------------ C20
\* C20, as stated: every history request sent by Fetch or FetchAll carries
\* a page size of at most 100, and 50 when the call was made with no page
\* size (Limit <= 0).
C20_CapAndDefault50 ==
    /\ \A i \in 1..Len(requests) :
         /\ requests[i].Limit <= 100
         /\ opts.Limit <= 0 => requests[i].Limit = 50
    /\ \A i \in 1..Len(getRequests) :
         /\ getRequests[i].Limit <= 100
         /\ getOpts.Limit <= 0 => getRequests[i].Limit = 50

\* C20, amended: every history request carries a page size of at most 100,
\* the GetMessages handler and the chat messages resource capping the
\* requested limit before they call Fetch; with no page size given a request
\* of Fetch carries 50 (an absent or non-positive limit argument included)
\* and a request of FetchAll carries 100; a positive page size is sent as it
\* is.
C20_CapAndDefaults ==
    /\ \A i \in 1..Len(requests) :
         /\ requests[i].Limit <= 100
         /\ requests[i].Limit = IF opts.Limit <= 0 THEN 100 ELSE opts.Limit
    /\ \A i \in 1..Len(getRequests) :
         /\ getRequests[i].Limit <= 100
         /\ getRequests[i].Limit = IF getOpts.Limit <= 0 THEN 50 ELSE getOpts.Limit
         /\ getCaller \in {"messages_get", "chat_messages"} =>
              getRequests[i].Limit =
                 IF getArgs.limit <= 0 THEN 50
                 ELSE IF getArgs.limit > 100 THEN 100 ELSE getArgs.limit

\* FetchAll called without a page size has sent two requests of 100.
C20_Witness ==
    /\ opts.Limit = 0
    /\ Len(requests) = 2
    /\ requests[1].Limit = 100 /\ requests[2].Limit = 100

\* ------------------------------------------------ page cursors of FetchAll
dayBuffer == 24 * 60 * 60
LastID(msgs) == msgs[Len(msgs)].ID

\* C24: only the first page request of a FetchAll call carries an offset
\* timestamp, MaxDate plus 24 hours and only when MaxDate is set; every
\* later request carries none and uses as cursor the ID of the last message
\* of the page before it.
C24_OffsetDateOnFirstRequestOnly ==
    /\ requests # <<>> =>
          /\ requests[1].OffsetID = 0
          /\ requests[1].OffsetDate =
                IF opts.MaxDate # 0 THEN opts.MaxDate + dayBuffer ELSE 0
    /\ \A i \in 2..Len(requests) :
          /\ requests[i].OffsetDate = 0
          /\ pages[i - 1].Messages # <<>>
          /\ requests[i].OffsetID = LastID(pages[i - 1].Messages)

\* A second request after a first one that carried MaxDate + 24h.
C24_Witness ==
    /\ Len(requests) = 2
    /\ opts.MaxDate = 2
    /\ requests[1].OffsetDate = 86402
    /\ requests[2].OffsetDate = 0
    /\ requests[2].OffsetID = 2

\* C28: FetchAll ends as "end of history" only on a page in which the
\* platform returned no records; a page with at least one record, regular
\* or service, never ends pagination as an empty page.
EndedOnEmptyPage ==
    /\ pc = "done"
    /\ ret.err = NoErr
    /\ pages # <<>>
    /\ pages[Len(pages)].Messages = <<>>
C28_EmptyEndOnlyWithoutRecords ==
    EndedOnEmptyPage => ~pageHadRecords[Len(pageHadRecords)]

\* C29: against a finite remote history whose pages hold only messages with
\* IDs strictly below the cursor they were requested with, every FetchAll
\* call returns, after at most one request per message ID plus one, for
\* every Limit, MinDate, MaxDate and MaxCount: the cursors sent after the
\* first request are message IDs and strictly decrease.
RemoteMaxRequests == Cardinality(MsgIDs) + 1
CursorsDecrease ==
    \A i \in 2..Len(requests) :
        /\ requests[i].OffsetID \in MsgIDs
        /\ i > 2 => requests[i].OffsetID < requests[i - 1].OffsetID
C29_FetchAllReturns ==
    /\ [](CursorsDecrease /\ Len(requests) <= RemoteMaxRequests)
    /\ <>(pc = "done")

\* A call that returned after walking the cursor down through every ID.
C29_Witness ==
    /\ pc = "done"
    /\ ret.err = NoErr
    /\ Len(requests) = RemoteMaxRequests
    /\ requests[2].OffsetID = 2
    /\ requests[3].OffsetID = 1

\* ------------------------------------------------ rolling summarization
SumSucceeded ==
    /\ sumRet.returned
    /\ sumRet.err = NoSumErr
    /\ sumBatches # <<>>

\* C21: the Provider is called at most once per batch, in batch order
\* 1, 2, ..., B; the call for batch k + 1 is not started before the result
\* of the call for batch k was received; a run that succeeds has made
\* exactly B calls.
C21_OneCallPerBatchInOrder ==
    /\ Len(provCalls) <= Len(sumBatches)
    /\ \A j \in 1..Len(provCalls) : provCalls[j].batch = j
    /\ Len(provCalls) <= Len(provReplies) + 1
    /\ SumSucceeded =>
          /\ Len(provCalls) = Len(sumBatches)
          /\ Len(provReplies) = Len(sumBatches)

\* A successful run over two batches.
C21_Witness ==
    /\ SumSucceeded
    /\ Len(sumBatches) = 2
    /\ provCalls[1].batch = 1
    /\ provCalls[2].batch = 2

\* t is s without its leading and trailing white space.
IsTrimOf(t, s) ==
    /\ t # <<>> => ~isSpace(t[1]) /\ ~isSpace(t[Len(t)])
    /\ \E a \in 0..Len(s) :
          /\ a + Len(t) <= Len(s)
          /\ \A i \in 1..Len(s) :
                IF i > a /\ i <= a + Len(t) THEN s[i] = t[i - a]
                ELSE isSpace(s[i])

\* C22: the rolling summary is empty in the first prompt; after each
\* successful Provider call it is that call's result with surrounding white
\* space trimmed, and it is the prior summary of the next prompt; a
\* successful run returns the rolling summary left by the last batch.
C22_RollingSummaryThreaded ==
    /\ provCalls # <<>> => provCalls[1].prompt.summary = <<>>
    /\ provReplies # <<>> =>
          IsTrimOf(runningSummary, provReplies[Len(provReplies)])
    /\ \A j \in 2..Len(provCalls) :
          IsTrimOf(provCalls[j].prompt.summary, provReplies[j - 1])
    /\ SumSucceeded =>
          IsTrimOf(sumRet.summary, provReplies[Len(sumBatches)])

\* Two batches; the first reply carried white space that was trimmed away.
C22_Witness ==
    /\ SumSucceeded
    /\ Len(provCalls) = 2
    /\ provReplies[1] = <<32, 111, 107, 10>>
    /\ provCalls[2].prompt.summary = <<111, 107>>
    /\ sumRet.summary = <<115>>

HasText(m) == m.Text # <<>>
Backwards(s) == [i \in 1..Len(s) |-> s[Len(s) - i + 1]]
FetchedList == sumFetched.result[1].Messages

\* C25: the fetched list is reversed exactly once before batching: the
\* messages of the batches handed to the Provider calls, one batch after
\* the other, are the fetched messages with non-empty text in the reverse
\* of the fetch order.
C25_BatchesAreReversedTextMessages ==
    sumBatches # <<>> =>
        /\ Flatten(sumBatches) = SelectSeq(Backwards(FetchedList), HasText)
        /\ \A j \in 1..Len(provCalls) :
              provCalls[j].prompt.messages = FormatBatchForSummary(sumBatches[j])

\* Three fetched messages, the middle one without text, in two batches.
C25_Witness ==
    /\ Len(sumBatches) = 2
    /\ Len(FetchedList) = 3
    /\ FetchedList[1].Date = 2
    /\ FetchedList[2].Text = <<>>
    /\ FetchedList[3].Date = 1
    /\ Len(provCalls) = 2
    /\ sumBatches[1][1].Date = 1

\* ------------------------------------------------ heartbeat after Stop
HeartbeatSends ==
    /\ Len(sent') = Len(sent) + 1
    /\ sent'[Len(sent')].sender = "heartbeat"

\* C30: once Stop has returned, the heartbeat of that estimator sends no
\* further progress notification, also when Stop runs while a tick is
\* being handled.
C30_NoHeartbeatSendAfterStop ==
    [][bpState = progressStateStopped => ~HeartbeatSends]_vars

\* ------------------------------------------------ the wait for the Provider
\* C23: the wait resolves on whichever of the Provider result and the
\* cancellation signal occurs first: the delivered result is returned when
\* it was delivered before the cancellation, the cancellation error when
\* the cancellation came before the delivery.
C23_FirstEventWins ==
    wRet.returned =>
        /\ wEvents[1] = "delivered" => wRet = resultReturn(gResult)
        /\ wEvents[1] = "canceled" => wRet = canceledReturn

\* C26: the Provider goroutine ends once the Provider has returned, also
\* when nobody waits for its result any more, and the heartbeat goroutine
\* exits once Stop has run.
C26_AuxiliaryGoroutinesEnd ==
    /\ (gPc = "sending") ~> (gPc = "exited")
    /\ (bpState = progressStateStopped) ~> (hbPc = "exited")

\* The wait was cancelled, the Provider returned afterwards, and its
\* goroutine ended leaving the result in the channel.
C26_Witness ==
    /\ wRet = canceledReturn
    /\ wEvents = <<"canceled", "delivered">>
    /\ gPc = "exited"
    /\ Len(resultCh) = 1

\* ------------------------------------------------ the shared rate limiter
HistoryRequests == {i \in 1..Len(wire) : wire[i].method = "MessagesGetHistory"}

\* C27: every history page request sent through the shared Provider, by
\* any of the concurrent operations, follows its own acquisition of one
\* token of the one limiter: none is sent without a token and no two
\* requests share one.
C27_OneTokenPerHistoryRequest ==
    /\ \A i \in HistoryRequests : wire[i].token \in 1..limiterTaken
    /\ \A i, j \in HistoryRequests : i # j => wire[i].token # wire[j].token

\* Both operations sent two history requests each, interleaved.
C27_Witness ==
    /\ Cardinality(HistoryRequests) = 4
    /\ limiterTaken = 4
    /\ wire[1].op # wire[2].op
    /\ \E i \in HistoryRequests : wire[i].op = 1 /\ wire[i].token = 4

====
